---- MODULE Spec2Model ----
(***************************************************************************)
(* giveaway_bot.py in several specifications over one set of definitions: *)
(*   Spec      one Worker process (spawner -> Harvester.start) of one      *)
(*             cycle, with the site it scrapes as its environment;         *)
(*   MainSpec  main and GiveawayBot with the Worker processes they start,  *)
(*             each Worker reduced to what it puts on its queue;           *)
(*   PairSpec  the _sow loops of the two harvesters running concurrently;  *)
(*   PipeSpec  Harvester.__init__ and the filter loop of _sow as functions *)
(*             of a configured chain and a list of giveaways;              *)
(*   LazySpec  the reads of the facts of the giveaways of one Worker       *)
(*             process through caching_property and the SteamParser        *)
(*             singleton;                                                  *)
(*   CallSpec  one filter method called on a list of giveaways;            *)
(*   ScanSpec  IndieGalaHarvester._reap with the listings it is served;    *)
(*   ChainSpec the filter loop of _sow over one page, any chain order;     *)
(*   FairSpec  Spec with the steps of _sow taken when they can be.         *)
(* Every external read (requests GET/POST followed by _login_check and     *)
(* parsing) is a nondeterministic choice over the outcomes the code        *)
(* distinguishes: it returns data, the login marker is missing (_crash),   *)
(* or it raises.                                                           *)
(***************************************************************************)
EXTENDS Integers, Sequences, FiniteSets, TLC

VARIABLES
    site,             \* Parser.name of the harvester the spawner built
    filters,          \* Harvester.filters, the effective chain
    queue,            \* the multiprocessing.Queue of this Worker
    pc,               \* where the Worker process is
    cached_points,    \* caching_property cell of Harvester.points
    cached_level,     \* caching_property cell of Harvester.level
    cached_xsrf_token, \* caching_property cell of SteamGiftsHarvester.xsrf_token
    login_checks,     \* calls of Parser._login_check made by the harvester
    points,           \* _sow: local points
    page,             \* _sow: local page
    giveaways,        \* _sow: local giveaways (the page being processed)
    idx,              \* _sow: position of the for loop in giveaways
    giveaways_enter,  \* _sow: local giveaways_enter
    sow,              \* start: local sow (None until _sow has returned)
    reap,             \* start: local reap (None until _reap has returned)
    reap_loops,       \* IndieGalaHarvester._reap: passes of the check loop
    reap_flag,        \* IndieGalaHarvester._reap: local reap (the loop flag)
    log,              \* the halting message _sow logged
    fatal,            \* what ended the process abnormally, and where
    fetched,          \* history: the raw pages _get_giveaways returned
    attempts,         \* history: the _enter_giveaway calls and their status
    \* main and GiveawayBot
    main_pc,          \* where main is
    exit_code,        \* the exit code of the program, None while it runs
    exit_by,          \* what ended the program
    enable,           \* [site] enable of giveaway_bot.ini
    bots,             \* GiveawayBot objects main has built, one per cycle
    i,                \* main: loop variable of range(sleepTime)
    key,              \* main: position of "for key in processes_logs"
    processes_logs,   \* bot.processes_logs of the bot main holds
    children,         \* the Worker processes started so far
    queues,           \* the multiprocessing.Queue objects made so far
    summary,          \* history: the lines main logged, per queue
    \* two harvesters side by side
    harvester,        \* per site: the locals of its _sow and what it was served
    \* the filter chain as a function
    p_pc,             \* which of __init__ and the filter loop has run
    p_site,           \* the harvester class
    p_tokens,         \* config['filters'], split
    p_filters,        \* self.filters after __init__
    p_giveaways,      \* the list _get_giveaways returned
    p_level,          \* self.level
    p_raising,        \* the filters whose fact resolution raises AttributeError
    p_out,            \* the list the filter loop leaves, None before it has run
    \* the facts resolved on first read
    z_pc,             \* the Worker process runs or has ended on an exception
    instances,        \* singleton's dict: the classes that have their instance
    z_built,          \* history: how many times SteamParser.__init__ has run
    z_cached,         \* per object and fact: the cached_<name> attribute
    z_calls,          \* history: per object and fact, calls of the wrapped function
    z_steam,          \* per giveaway: self.steam is set
    z_list,           \* per giveaway and fact: self.wishlist / self.library
    z_ret,            \* the object, fact and value of the last read that returned
    \* IndieGalaHarvester._reap
    s_pc,             \* where _reap is
    s_items,          \* local items: the <li> of the listing fetched last
    s_pos,            \* position of "for item in items"
    s_reap,           \* local reap, the flag of the check loop
    s_fetches,        \* history: GETs of the check loop
    s_seen,           \* history: the entries the for loop has reached
    s_posts,          \* history: the entries whose check_if_won was posted
    s_left,           \* history: what the check loop was left on
    s_err,            \* the exception that ended _reap
    s_ret             \* what _reap returned, None before

\* the variables of one Worker process
worker == <<site, filters, queue, pc, cached_points, cached_level, cached_xsrf_token,
            login_checks, points, page, giveaways, idx, giveaways_enter, sow, reap,
            reap_loops, reap_flag, log, fatal, fetched, attempts>>

\* the variables of main, GiveawayBot and the processes they start
orchestrator == <<main_pc, exit_code, exit_by, enable, bots, i, key, processes_logs,
                  children, queues, summary>>

\* the variable of the two concurrent harvesters
pair == <<harvester>>

\* the variables of the filter chain
pipeline == <<p_pc, p_site, p_tokens, p_filters, p_giveaways, p_level, p_raising, p_out>>

\* the variables of the facts resolved on first read
lazy == <<z_pc, instances, z_built, z_cached, z_calls, z_steam, z_list, z_ret>>

\* the variables of IndieGalaHarvester._reap
scan == <<s_pc, s_items, s_pos, s_reap, s_fetches, s_seen, s_posts, s_left, s_err, s_ret>>

vars == <<worker, orchestrator, pair, pipeline, lazy, scan>>

----------------------------------------------------------------------------
\* Bounds of the environment

\* the source serves at most this many non-empty pages
MaxPages == 2
\* giveaways on one page
MaxPageLen == 2
\* passes of IndieGala's check loop that see no 'No results.' item
MaxReapLoops == 1

\* Optional values: the attribute or local is absent, or holds x
None == <<>>
Some(x) == <<x>>
Val(o) == o[1]

Sites == {"SteamGifts", "IndieGala"}

\* Each specification moves its own variables and holds the others still
WorkerIdle ==
    /\ site = "SteamGifts"
    /\ filters = <<>>
    /\ queue = <<>>
    /\ pc = "none"
    /\ cached_points = None
    /\ cached_level = None
    /\ cached_xsrf_token = None
    /\ login_checks = 0
    /\ points = 0
    /\ page = 1
    /\ giveaways = <<>>
    /\ idx = 1
    /\ giveaways_enter = <<>>
    /\ sow = None
    /\ reap = None
    /\ reap_loops = 0
    /\ reap_flag = TRUE
    /\ log = ""
    /\ fatal = [kind |-> "", at |-> ""]
    /\ fetched = <<>>
    /\ attempts = <<>>

MainIdle ==
    /\ main_pc = "none"
    /\ exit_code = None
    /\ exit_by = ""
    /\ enable = <<>>
    /\ bots = 0
    /\ i = 0
    /\ key = 1
    /\ processes_logs = <<>>
    /\ children = <<>>
    /\ queues = <<>>
    /\ summary = <<>>

PairIdle == harvester = <<>>

PipelineIdle ==
    /\ p_pc = "none"
    /\ p_site = "SteamGifts"
    /\ p_tokens = <<>>
    /\ p_filters = <<>>
    /\ p_giveaways = <<>>
    /\ p_level = 0
    /\ p_raising = {}
    /\ p_out = None

LazyIdle ==
    /\ z_pc = "none"
    /\ instances = {}
    /\ z_built = 0
    /\ z_cached = <<>>
    /\ z_calls = <<>>
    /\ z_steam = <<>>
    /\ z_list = <<>>
    /\ z_ret = None

ScanIdle ==
    /\ s_pc = "none"
    /\ s_items = <<>>
    /\ s_pos = 1
    /\ s_reap = TRUE
    /\ s_fetches = 0
    /\ s_seen = <<>>
    /\ s_posts = <<>>
    /\ s_left = ""
    /\ s_err = ""
    /\ s_ret = None

\* A giveaway as _get_giveaways builds it (title, points, entered, level),
\* with the facts it resolves on first read at the values the test fixture
\* gives them (tests.py, set_gw_attribs)
Giveaway(t, p, e, l) ==
    [title |-> t, points |-> p, entered |-> e, level |-> l,
     trust_points |-> 1, os_list |-> {"win", "lin", "mac"},
     in_library |-> FALSE, in_wishlist |-> TRUE, dlc |-> FALSE, cards |-> TRUE]

\* The giveaways the source may list: A costs 11 points and asks for level 1,
\* B costs 5, E costs 5 and is already entered
Giveaways ==
    { Giveaway("A", 11, FALSE, 1), Giveaway("B", 5, FALSE, 0),
      Giveaway("E", 5, TRUE, 0) }

PagesOfLen(n) ==
    { s \in [1..n -> Giveaways] : \A a, b \in 1..n : a # b => s[a] # s[b] }

\* The pages the source may return: lists of distinct giveaways
Pages == UNION { PagesOfLen(n) : n \in 0..MaxPageLen }

\* Point balances and contributor levels the site may report
Balances == {10, 30}
Levels == {0, 1}

\* Won-listings _reap may find unacknowledged
WinLists == { <<>>, <<"W">> }

----------------------------------------------------------------------------
\* Filter chain (Harvester.__init__)

NoArg == ""
\* a bare token is a name, a name=argument token a name/argument pair
Bare(n) == [name |-> n, arg |-> NoArg]
Arged(n, a) == [name |-> n, arg |-> a]

\* int() on the numerals a configuration uses
int(s) == (("-1" :> -1) @@ ("0" :> 0) @@ ("1" :> 1) @@ ("5" :> 5) @@ ("10" :> 10)
             @@ ("11" :> 11) @@ ("50" :> 50))[s]

required_filters(s) ==
    IF s = "SteamGifts" THEN <<Bare("entered"), Bare("level"), Bare("library")>>
    ELSE <<Bare("entered"), Bare("level")>>

disabled_filters(s) == {}

internal_filters(s) ==
    IF s = "SteamGifts" THEN {"library", "level", "os", "wishlist"} ELSE {}

InSeq(x, s) == \E k \in 1..Len(s) : s[k] = x

RECURSIVE AppendNew(_, _)
\* [self.filters.append(x) for x in tokens if x not in self.filters]
AppendNew(flts, tokens) ==
    IF tokens = <<>> THEN flts
    ELSE AppendNew(IF InSeq(Head(tokens), flts) THEN flts ELSE Append(flts, Head(tokens)),
                   Tail(tokens))

RECURSIVE RemoveFirst(_, _)
\* list.remove(x), ValueError swallowed
RemoveFirst(s, x) ==
    IF s = <<>> THEN <<>>
    ELSE IF Head(s) = x THEN Tail(s)
    ELSE <<Head(s)>> \o RemoveFirst(Tail(s), x)

\* mutant: 'library' is left in the chain when 'wishlist' is there
HarvesterInitKeepsLibrary(s, tokens) ==
    SelectSeq(AppendNew(required_filters(s), tokens),
              LAMBDA f : f \notin disabled_filters(s))

\* Harvester.__init__: required filters, then the configured tokens not yet
\* there, without the disabled ones, and without 'library' under 'wishlist'
HarvesterInit(s, tokens) ==
    LET all == AppendNew(required_filters(s), tokens)
        kept == SelectSeq(all, LAMBDA f : f \notin disabled_filters(s))
    IN IF InSeq(Bare("wishlist"), kept) THEN RemoveFirst(kept, Bare("library")) ELSE kept

\* The configured chains ([site] filters = ...) of the model
ConfigFilters == { <<>>, <<Arged("max_points", "10")>> }

----------------------------------------------------------------------------
\* Filters (Harvester._filter_* / _arged_filter_*)

\* mutant: the bare filter lets a balanced author (score 0) through
_filter_trust_balanced(gs) == SelectSeq(gs, LAMBDA g : g.trust_points >= 0)

_filter_trust(gs) == SelectSeq(gs, LAMBDA g : g.trust_points > 0)

_arged_filter_trust(gs, a) ==
    IF int(a) <= -1 THEN gs
    ELSE SelectSeq(gs, LAMBDA g : g.trust_points >= int(a))

\* mutant: the token that disables the filter is 'any'
_arged_filter_os_any(gs, a) ==
    IF a = "any" THEN gs
    ELSE SelectSeq(gs, LAMBDA g : a \in g.os_list)

_arged_filter_os(gs, a) ==
    IF a = "all" THEN gs
    ELSE SelectSeq(gs, LAMBDA g : a \in g.os_list)

_filter_entered(gs) == SelectSeq(gs, LAMBDA g : ~g.entered)

_filter_library(gs) == SelectSeq(gs, LAMBDA g : ~g.in_library)

\* mutant: the giveaways on the wishlist are the ones removed
_filter_wishlist_inverted(gs) == SelectSeq(gs, LAMBDA g : ~g.in_wishlist)

_filter_wishlist(gs) == SelectSeq(gs, LAMBDA g : g.in_wishlist)

\* mutant: the comprehension stops at the first giveaway it keeps
_filter_dlc_first(gs) ==
    LET kept == SelectSeq(gs, LAMBDA g : ~g.dlc)
    IN IF kept = <<>> THEN <<>> ELSE <<Head(kept)>>

_filter_dlc(gs) == SelectSeq(gs, LAMBDA g : ~g.dlc)

Reverse(gs) == [k \in 1..Len(gs) |-> gs[Len(gs) + 1 - k]]

\* mutant: the kept giveaways come back in another order
_filter_cards_unordered(gs) == Reverse(SelectSeq(gs, LAMBDA g : g.cards))

_filter_cards(gs) == SelectSeq(gs, LAMBDA g : g.cards)

_filter_level(gs, lvl) == SelectSeq(gs, LAMBDA g : g.level <= lvl)

\* mutant: a giveaway that costs exactly the threshold is dropped
_arged_filter_max_points_strict(gs, a) == SelectSeq(gs, LAMBDA g : g.points < int(a))

_arged_filter_max_points(gs, a) == SelectSeq(gs, LAMBDA g : g.points <= int(a))

_arged_filter_min_points(gs, a) == SelectSeq(gs, LAMBDA g : g.points >= int(a))

_arged_filter_min_level(gs, a) == SelectSeq(gs, LAMBDA g : g.level >= int(a))

\* mutant: the test looks at the name of the filter only
IsInternalByName(s, flt) == flt.name \in internal_filters(s)

\* flt not in self.internal_filters: a name/argument pair never equals a name
IsInternal(s, flt) == flt.arg = NoArg /\ flt.name \in internal_filters(s)

\* a plausible wrong handling of a missing filter method: nothing passes
SkippedDropsAll(gs) == <<>>

\* "except AttributeError: continue": getattr found no method of that name,
\* giveaways was not assigned and the loop goes on with the same list
Skipped(gs) == gs

\* getattr(self, "_filter_%s" % flt)(giveaways) for a name, and
\* getattr(self, "_arged_filter_%s" % flt[0])(giveaways, flt[1]) for a pair;
\* a filter method that does not exist raises AttributeError and the filter
\* is skipped
CallFilter(flt, gs, lvl) ==
    IF flt.arg = NoArg THEN
        CASE flt.name = "entered" -> _filter_entered(gs)
          [] flt.name = "level" -> _filter_level(gs, lvl)
          [] flt.name = "trust" -> _filter_trust(gs)
          [] flt.name = "library" -> _filter_library(gs)
          [] flt.name = "wishlist" -> _filter_wishlist(gs)
          [] flt.name = "dlc" -> _filter_dlc(gs)
          [] flt.name = "cards" -> _filter_cards(gs)
          [] OTHER -> Skipped(gs)
    ELSE
        CASE flt.name = "trust" -> _arged_filter_trust(gs, flt.arg)
          [] flt.name = "os" -> _arged_filter_os(gs, flt.arg)
          [] flt.name = "max_points" -> _arged_filter_max_points(gs, flt.arg)
          [] flt.name = "min_points" -> _arged_filter_min_points(gs, flt.arg)
          [] flt.name = "min_level" -> _arged_filter_min_level(gs, flt.arg)
          [] OTHER -> Skipped(gs)

\* One pass of the body of "for flt in self.filters"
ApplyFilter(s, flt, gs, lvl) ==
    IF IsInternal(s, flt) THEN gs ELSE CallFilter(flt, gs, lvl)

\* mutant: every filter is given the page, the last result is what is left
RunFiltersEachOnPage(s, chain, gs, lvl) ==
    IF chain = <<>> THEN gs
    ELSE ApplyFilter(s, chain[Len(chain)], gs, lvl)

RECURSIVE RunFilters(_, _, _, _)
\* for flt in self.filters: each filter consumes the previous one's output
RunFilters(s, chain, gs, lvl) ==
    IF chain = <<>> THEN gs
    ELSE RunFilters(s, Tail(chain), ApplyFilter(s, Head(chain), gs, lvl), lvl)

\* _filter_level reads self.level once per giveaway of its input, so the
\* level is resolved when a local 'level' filter gets a non-empty list
ReadsLevel(s, chain, gs) ==
    \E k \in 1..Len(chain) :
        /\ chain[k] = Bare("level")
        /\ ~IsInternal(s, chain[k])
        /\ RunFilters(s, SubSeq(chain, 1, k - 1), gs, 0) # <<>>

----------------------------------------------------------------------------
\* Results and process ends

\* mutant: the error result takes the entries made so far along
ErrorResultWithSow(msg) == [status |-> "error", msg |-> msg, sow |-> giveaways_enter]

\* _crash: results = {'timestamp', 'status': 'error', 'msg'}
ErrorResult(msg) == [status |-> "error", msg |-> msg]

\* mutant: the ok result reports no entries
OkResultNoSow(s, r) == [status |-> "ok", sow |-> <<>>, reap |-> r]

\* start: results = {'timestamp', 'status': 'ok', 'sow', 'reap'}
OkResult(s, r) == [status |-> "ok", sow |-> s, reap |-> r]

NoFatal == [kind |-> "", at |-> ""]

\* mutant: _crash logs and exits without putting the error result
_crash_no_put(msg) ==
    /\ queue' = queue
    /\ pc' = "exited"

\* mutant: _crash puts the error result and returns instead of exiting
_crash_no_exit(msg) ==
    /\ queue' = Append(queue, [status |-> "error", msg |-> msg])
    /\ pc' = pc

\* Parser._crash: put the error result, then sys.exit()
_crash(msg) ==
    /\ queue' = Append(queue, ErrorResult(msg))
    /\ pc' = "exited"

\* _login_check found no login marker: _crash("Can't login ...")
LoginFailed(at) ==
    /\ _crash("Can't login")
    /\ fatal' = [kind |-> "login", at |-> at]

\* An exception nothing catches ends the process; nothing is put
Dies(kind, at) ==
    /\ pc' = "died"
    /\ fatal' = [kind |-> kind, at |-> at]
    /\ UNCHANGED queue

\* mutant: a page is parsed without the login marker being looked for
_login_check_skipped(n) == n

\* Parser._login_check: one more page has been checked for the login marker
_login_check(n) == n + 1

----------------------------------------------------------------------------
\* _sow

\* mutant: a cost equal to the remaining points is refused
AffordableStrict(p, g) == p > g.points

\* if int(points) >= int(giveaway.points)
Affordable(p, g) == p >= g.points

\* mutant: the cost of an entry is not taken off
DeductNothing(p, g) == p

\* points -= giveaway.points
Deduct(p, g) == p - g.points

\* mutant: an empty page does not end the loop
NoMoreNever(gs) == FALSE

\* if not giveaways
NoMore(gs) == gs = <<>>

\* mutant: every returned status counts as an entry made
EnteredAny(status) == TRUE

\* if status == 'ok'
Entered(status) == status = "ok"

\* the entry appended to giveaways_enter ({'title', 'href'}: href follows title)
Entry(g) == g.title

Init ==
    /\ site \in Sites
    /\ \E tokens \in ConfigFilters : filters = HarvesterInit(site, tokens)
    /\ queue = <<>>
    /\ pc = "start"
    /\ cached_points = None
    /\ cached_level = None
    /\ cached_xsrf_token = None
    /\ login_checks = 0
    /\ points = 0
    /\ page = 1
    /\ giveaways = <<>>
    /\ idx = 1
    /\ giveaways_enter = <<>>
    /\ sow = None
    /\ reap = None
    /\ reap_loops = 0
    /\ reap_flag = TRUE
    /\ log = ""
    /\ fatal = NoFatal
    /\ fetched = <<>>
    /\ attempts = <<>>
    /\ MainIdle
    /\ PairIdle
    /\ PipelineIdle
    /\ LazyIdle
    /\ ScanIdle

\* mutant: start skips _reap when _sow entered nothing
SowReturnsSkipsReap(msg) ==
    /\ log' = msg
    /\ sow' = Some(giveaways_enter)
    /\ pc' = IF giveaways_enter = <<>> THEN "put" ELSE "reap"

\* _sow returns giveaways_enter to start, which goes on to _reap
SowReturns(msg) ==
    /\ log' = msg
    /\ sow' = Some(giveaways_enter)
    /\ pc' = "reap"

\* mutant: the balance read is not kept in cached_points
sow_points_uncached ==
    /\ pc = "start"
    /\ \E b \in Balances : points' = b
    /\ login_checks' = _login_check(login_checks)
    /\ pc' = "get_giveaways"
    /\ UNCHANGED <<site, filters, queue, cached_points, cached_level, cached_xsrf_token, page,
                   giveaways, idx, giveaways_enter, sow, reap, reap_loops, reap_flag, log,
                   fatal, fetched, attempts>>
    /\ UNCHANGED <<orchestrator, pair, pipeline, lazy, scan>>

\* points = self.points (SteamGiftsHarvester.points / IndieGalaHarvester.points)
sow_points ==
    /\ pc = "start"
    /\ \/ /\ \E b \in Balances :
                /\ cached_points' = Some(b)
                /\ points' = b
          /\ login_checks' = _login_check(login_checks)
          /\ pc' = "get_giveaways"
          /\ UNCHANGED <<queue, fatal>>
       \/ /\ LoginFailed("points")
          /\ login_checks' = _login_check(login_checks)
          /\ UNCHANGED <<cached_points, points>>
       \/ Dies("raise", "points") /\ UNCHANGED <<cached_points, points, login_checks>>
    /\ UNCHANGED <<site, filters, cached_level, cached_xsrf_token, page, giveaways, idx,
                   giveaways_enter, sow, reap, reap_loops, reap_flag, log, fetched, attempts>>
    /\ UNCHANGED <<orchestrator, pair, pipeline, lazy, scan>>

\* SteamGiftsHarvester._get_giveaways starts with _internal_filters, which
\* posts self.xsrf_token: the first call reads the token page and checks it
ReadsToken == site = "SteamGifts" /\ cached_xsrf_token = None

\* giveaways = self._get_giveaways(page); if not giveaways: break
_get_giveaways ==
    /\ pc = "get_giveaways"
    /\ LET tokened == IF site = "SteamGifts" THEN Some("token") ELSE None
           before == IF ReadsToken THEN _login_check(login_checks) ELSE login_checks
       IN \/ /\ \E pg \in (IF page <= MaxPages THEN Pages ELSE {<<>>}) :
                   /\ fetched' = Append(fetched, pg)
                   /\ giveaways' = pg
                   /\ IF NoMore(pg)
                      THEN SowReturns("No more giveaways.")
                      ELSE pc' = "filter" /\ UNCHANGED <<log, sow>>
             /\ cached_xsrf_token' = tokened
             /\ login_checks' = _login_check(before)
             /\ UNCHANGED <<queue, fatal>>
          \/ /\ ReadsToken
             /\ LoginFailed("get_giveaways")
             /\ login_checks' = _login_check(login_checks)
             /\ UNCHANGED <<cached_xsrf_token, fetched, giveaways, log, sow>>
          \/ /\ LoginFailed("get_giveaways")
             /\ cached_xsrf_token' = tokened
             /\ login_checks' = _login_check(before)
             /\ UNCHANGED <<fetched, giveaways, log, sow>>
          \/ /\ Dies("raise", "get_giveaways")
             /\ UNCHANGED <<cached_xsrf_token, login_checks, fetched, giveaways, log, sow>>
          \/ /\ ReadsToken
             /\ Dies("raise", "get_giveaways")
             /\ cached_xsrf_token' = tokened
             /\ login_checks' = before
             /\ UNCHANGED <<fetched, giveaways, log, sow>>
    /\ UNCHANGED <<site, filters, cached_points, cached_level, points, page, idx,
                   giveaways_enter, reap, reap_loops, reap_flag, attempts>>
    /\ UNCHANGED <<orchestrator, pair, pipeline, lazy, scan>>

\* mutant: the page counter stays where it is
SamePage(n) == n

\* page += 1
NextPage(n) == n + 1

\* for flt in self.filters: ...; page += 1; then the for loop starts
apply_filters ==
    /\ pc = "filter"
    /\ LET reads == ReadsLevel(site, filters, giveaways) /\ cached_level = None
           after(lvl) ==
               /\ giveaways' = RunFilters(site, filters, giveaways, lvl)
               /\ page' = NextPage(page)
               /\ idx' = 1
               /\ pc' = IF giveaways' = <<>> THEN "get_giveaways" ELSE "enter"
               /\ UNCHANGED <<queue, fatal>>
       IN \/ /\ ~reads
             /\ after(IF cached_level = None THEN 0 ELSE Val(cached_level))
             /\ UNCHANGED cached_level
          \/ /\ reads
             /\ \E lvl \in Levels : cached_level' = Some(lvl) /\ after(lvl)
          \/ /\ reads
             /\ \/ Dies("raise", "level")
                \/ Dies("crash_without_msg", "level")
             /\ UNCHANGED <<cached_level, giveaways, page, idx>>
    /\ UNCHANGED <<site, filters, cached_points, cached_xsrf_token, login_checks,
                   points, giveaways_enter, sow, reap,
                   reap_loops, reap_flag, log, fetched, attempts>>
    /\ UNCHANGED <<orchestrator, pair, pipeline, lazy, scan>>

\* mutant: the for loop stays on the giveaway it has just attempted
NextGiveawayStays ==
    idx' = idx /\ pc' = "enter"

\* the for loop moves on; when the page is done the while loop fetches again
NextGiveaway ==
    IF idx < Len(giveaways)
    THEN idx' = idx + 1 /\ pc' = "enter"
    ELSE idx' = idx /\ pc' = "get_giveaways"

\* one pass of "for giveaway in giveaways"
_enter_giveaway ==
    /\ pc = "enter"
    /\ LET giveaway == giveaways[idx]
       IN IF Affordable(points, giveaway)
          THEN \/ /\ \E status \in {"ok", "error"} :
                        /\ attempts' = Append(attempts, [title |-> giveaway.title, status |-> status])
                        /\ IF Entered(status)
                           THEN /\ points' = Deduct(points, giveaway)
                                /\ giveaways_enter' = Append(giveaways_enter, Entry(giveaway))
                           ELSE UNCHANGED <<points, giveaways_enter>>
                  /\ NextGiveaway
                  /\ UNCHANGED <<queue, fatal, log, sow>>
               \/ /\ attempts' = Append(attempts, [title |-> giveaway.title, status |-> "raise"])
                  /\ Dies("raise", "enter")
                  /\ UNCHANGED <<points, giveaways_enter, idx, log, sow>>
          ELSE /\ SowReturns("Not Enough Points.")
               /\ UNCHANGED <<queue, fatal, attempts, points, giveaways_enter, idx>>
    /\ UNCHANGED <<site, filters, cached_points, cached_level, cached_xsrf_token,
                   login_checks, page, giveaways, reap, reap_loops, reap_flag, fetched>>
    /\ UNCHANGED <<orchestrator, pair, pipeline, lazy, scan>>

----------------------------------------------------------------------------
\* _reap

\* _reap returns the unacknowledged wins to start
ReapReturns(wins) ==
    /\ reap' = Some(wins)
    /\ pc' = "put"

\* SteamGiftsHarvester._reap: one read of /giveaways/won
reap_SteamGifts ==
    /\ pc = "reap"
    /\ site = "SteamGifts"
    /\ \/ /\ \E wins \in WinLists : ReapReturns(wins)
          /\ login_checks' = _login_check(login_checks)
          /\ UNCHANGED <<queue, fatal>>
       \/ /\ LoginFailed("reap")
          /\ login_checks' = _login_check(login_checks)
          /\ UNCHANGED reap
       \/ Dies("raise", "reap") /\ UNCHANGED <<reap, login_checks>>
    /\ UNCHANGED <<site, filters, cached_points, cached_level, cached_xsrf_token, points, page,
                   giveaways, idx, giveaways_enter, sow, reap_loops, reap_flag,
                   log, fetched, attempts>>
    /\ UNCHANGED <<orchestrator, pair, pipeline, lazy, scan>>

\* IndieGalaHarvester._reap, one pass of "while reap": the listing cannot be
\* parsed as JSON (break), holds a 'No results.' item (reap = False), or holds
\* only entries, each of which gets a check posted before the next pass
reap_IndieGala_check ==
    /\ pc = "reap"
    /\ site = "IndieGala"
    /\ \/ /\ \E listing \in {"not json", "No results."} :
                reap_flag' = (listing = "not json")
          /\ pc' = "reap_won"
          /\ UNCHANGED <<reap_loops, queue, fatal>>
       \/ /\ reap_loops < MaxReapLoops
          /\ reap_loops' = reap_loops + 1
          /\ UNCHANGED <<pc, reap_flag, queue, fatal>>
       \/ Dies("raise", "reap") /\ UNCHANGED <<reap_loops, reap_flag>>
    /\ UNCHANGED <<site, filters, cached_points, cached_level, cached_xsrf_token,
                   login_checks, points, page,
                   giveaways, idx, giveaways_enter, sow, reap, log, fetched,
                   attempts>>
    /\ UNCHANGED <<orchestrator, pair, pipeline, lazy, scan>>

\* IndieGalaHarvester._reap after the loop: the listing is read again and
\* json.loads(data)['html'] is not guarded here
reap_IndieGala_won ==
    /\ pc = "reap_won"
    /\ \/ /\ \E wins \in WinLists : ReapReturns(wins)
          /\ UNCHANGED <<queue, fatal>>
       \/ Dies("raise", "reap") /\ UNCHANGED reap
    /\ UNCHANGED <<site, filters, cached_points, cached_level, cached_xsrf_token,
                   login_checks, points, page,
                   giveaways, idx, giveaways_enter, sow, reap_loops, reap_flag,
                   log, fetched, attempts>>
    /\ UNCHANGED <<orchestrator, pair, pipeline, lazy, scan>>

----------------------------------------------------------------------------
\* start

\* self.queue.put(results), after _sow and _reap have returned
put_results ==
    /\ pc = "put"
    /\ queue' = Append(queue, OkResult(Val(sow), Val(reap)))
    /\ pc' = "done"
    /\ UNCHANGED <<site, filters, cached_points, cached_level, cached_xsrf_token,
                   login_checks, points, page,
                   giveaways, idx, giveaways_enter, sow, reap, reap_loops,
                   reap_flag, log, fatal, fetched, attempts>>
    /\ UNCHANGED <<orchestrator, pair, pipeline, lazy, scan>>

Next ==
    \/ sow_points
    \/ _get_giveaways
    \/ apply_filters
    \/ _enter_giveaway
    \/ reap_SteamGifts
    \/ reap_IndieGala_check
    \/ reap_IndieGala_won
    \/ put_results

Spec == Init /\ [][Next]_vars

\* _sow is sequential code in one process: when the call it waits for
\* returns, its next step is taken.
FairSpec ==
    /\ Spec
    /\ WF_vars(sow_points)
    /\ WF_vars(_get_giveaways)
    /\ WF_vars(apply_filters)
    /\ WF_vars(_enter_giveaway)

----------------------------------------------------------------------------
\* main and GiveawayBot (MainSpec).  A Worker process is reduced to what the
\* Worker specification above shows of it from outside: while alive it may
\* put one result and end, or end without a result; it may also never end.

\* int(config['sleepTime']): the passes of the polling loop in one cycle
sleepTime == 2
\* GiveawayBot objects main builds before the model stops it
MaxCycles == 2

\* GiveawayBot.harvesters, in list order
harvesters == <<"SteamGifts", "IndieGala">>

\* What a Worker may put: the result of start (here with one entry and one
\* win) or the result of _crash
Results == { OkResult(<<"A">>, <<"W">>), ErrorResult("Can't login") }

\* sys.exit(arg): exit code 0 when no argument is given
sys_exit(arg) == IF arg = None THEN 0 ELSE Val(arg)

\* an exception nothing catches: traceback and exit code 1
Traceback == Some(1)

MainInit ==
    /\ main_pc = "load_config"
    /\ exit_code = None
    /\ exit_by = ""
    /\ enable \in [Sites -> {"0", "1"}]
    /\ bots = 0
    /\ i = 0
    /\ key = 1
    /\ processes_logs = <<>>
    /\ children = <<>>
    /\ queues = <<>>
    /\ summary = <<>>
    /\ WorkerIdle
    /\ PairIdle
    /\ PipelineIdle
    /\ LazyIdle
    /\ ScanIdle

\* main: config.read_file(open("giveaway_bot.ini")); a missing file is
\* caught and answered with sys.exit(), any other failure is not caught
load_config ==
    /\ main_pc = "load_config"
    /\ \E file \in {"read", "missing", "unreadable"} :
          CASE file = "read" ->
                  /\ main_pc' = "new_bot"
                  /\ UNCHANGED <<exit_code, exit_by>>
            [] file = "missing" ->
                  /\ exit_code' = Some(sys_exit(None))
                  /\ exit_by' = "No config file."
                  /\ main_pc' = "stopped"
            [] file = "unreadable" ->
                  /\ exit_code' = Traceback
                  /\ exit_by' = "config error"
                  /\ main_pc' = "stopped"
    /\ UNCHANGED <<enable, bots, i, key, processes_logs, children, queues, summary>>
    /\ UNCHANGED <<worker, pair, pipeline, lazy, scan>>

\* while True: bot = GiveawayBot(log_level); its __init__ reads the file
\* again and answers a missing file with sys.exit()
new_bot ==
    /\ main_pc = "new_bot"
    /\ bots < MaxCycles
    /\ \/ /\ bots' = bots + 1
          /\ processes_logs' = <<>>
          /\ main_pc' = "start"
          /\ UNCHANGED <<exit_code, exit_by>>
       \/ /\ exit_code' = Some(sys_exit(None))
          /\ exit_by' = "No config file."
          /\ main_pc' = "stopped"
          /\ UNCHANGED <<bots, processes_logs>>
    /\ UNCHANGED <<enable, i, key, children, queues, summary>>
    /\ UNCHANGED <<worker, pair, pipeline, lazy, scan>>

\* mutant: the queue made for the site in the first cycle is used again
FirstQueue(c, s) == <<1, s>>

\* queue = multiprocessing.Queue(): the queue object made in cycle c for site s
Queue(c, s) == <<c, s>>

\* process = multiprocessing.Process(...): the process object made in cycle c
Process(c, s) == <<c, s>>

\* GiveawayBot.start: a queue and a started process for every enabled site
bot_start ==
    /\ main_pc = "start"
    /\ LET enabled == { s \in Sites : int(enable[s]) # 0 }
       IN /\ processes_logs' = [s \in enabled |-> Queue(bots, s)]
          /\ queues' = queues @@ [q \in { Queue(bots, s) : s \in enabled } |-> <<>>]
          /\ summary' = summary @@ [q \in { Queue(bots, s) : s \in enabled } |-> <<>>]
          /\ children' = children @@
                [p \in { Process(bots, s) : s \in enabled } |->
                    [name |-> p[2], queue |-> Queue(bots, p[2]), state |-> "alive"]]
    /\ i' = 0
    /\ key' = 1
    /\ main_pc' = IF 0 < sleepTime THEN "poll" ELSE "new_bot"
    /\ UNCHANGED <<exit_code, exit_by, enable, bots>>
    /\ UNCHANGED <<worker, pair, pipeline, lazy, scan>>

\* for key in processes_logs: the keys in insertion order
Keys == SelectSeq(harvesters, LAMBDA s : s \in DOMAIN processes_logs)

\* mutant: the queue is read without looking whether it holds a result
empty_never(q) == FALSE

\* queue.empty()
empty(q) == queues[q] = <<>>

\* the line main logs for a result (nothing for a status it does not know)
SummaryLine(k, results) ==
    IF results.status = "ok"
    THEN [key |-> k, num |-> Len(results.sow),
          line |-> IF Len(results.reap) > 0 THEN "YOU WIN something!"
                   ELSE "you don't win anything"]
    ELSE [key |-> k, num |-> 0, line |-> "end work with error"]

\* One step of the polling loops: a pass of "while not queue.empty()", which
\* takes a result with queue.get() (a call that waits while the queue is
\* empty) and logs its line, or the move to the next key, or past the last
poll_queue ==
    /\ main_pc = "poll"
    /\ IF key <= Len(Keys)
       THEN LET q == processes_logs[Keys[key]]
            IN IF ~empty(q)
               THEN /\ queues[q] # <<>>
                    /\ queues' = [queues EXCEPT ![q] = Tail(@)]
                    /\ summary' = [summary EXCEPT
                                     ![q] = Append(@, SummaryLine(Keys[key], Head(queues[q])))]
                    /\ UNCHANGED <<key, main_pc>>
               ELSE /\ key' = key + 1
                    /\ UNCHANGED <<queues, summary, main_pc>>
       ELSE /\ main_pc' = "sleep"
            /\ UNCHANGED <<key, queues, summary>>
    /\ UNCHANGED <<exit_code, exit_by, enable, bots, i, processes_logs, children>>
    /\ UNCHANGED <<worker, pair, pipeline, lazy, scan>>

\* time.sleep(60), then the next pass of range(sleepTime) or the next cycle
sleep ==
    /\ main_pc = "sleep"
    /\ i' = i + 1
    /\ key' = 1
    /\ main_pc' = IF i + 1 < sleepTime THEN "poll" ELSE "new_bot"
    /\ UNCHANGED <<exit_code, exit_by, enable, bots, processes_logs, children, queues,
                   summary>>
    /\ UNCHANGED <<worker, pair, pipeline, lazy, scan>>

\* mutant: only the processes the current bot started
children_of_bot(ch) ==
    { p \in DOMAIN ch : ch[p].state = "alive" /\ p[1] = bots }

\* multiprocessing.active_children(): every child process still alive
active_children(ch) == { p \in DOMAIN ch : ch[p].state = "alive" }

\* KeyboardInterrupt inside the try block: bot.stop() terminates the active
\* children and calls sys.exit()
KeyboardInterrupt ==
    /\ main_pc \in {"start", "poll", "sleep"}
    /\ children' = [p \in DOMAIN children |->
                      IF p \in active_children(children)
                      THEN [children[p] EXCEPT !.state = "terminated"]
                      ELSE children[p]]
    /\ exit_code' = Some(sys_exit(None))
    /\ exit_by' = "Interrupted by user."
    /\ main_pc' = "stopped"
    /\ UNCHANGED <<enable, bots, i, key, processes_logs, queues, summary>>
    /\ UNCHANGED <<worker, pair, pipeline, lazy, scan>>

\* KeyboardInterrupt outside the try block (before the loop, or in
\* GiveawayBot(log_level) at the top of an iteration): nothing catches it
KeyboardInterrupt_uncaught ==
    /\ main_pc \in {"load_config", "new_bot"}
    /\ exit_code' = Traceback
    /\ exit_by' = "KeyboardInterrupt"
    /\ main_pc' = "stopped"
    /\ UNCHANGED <<enable, bots, i, key, processes_logs, children, queues, summary>>
    /\ UNCHANGED <<worker, pair, pipeline, lazy, scan>>

\* A Worker puts its one result (start's, or _crash's) and its process ends
worker_reports(p) ==
    /\ children[p].state = "alive"
    /\ \E results \in Results :
          queues' = [queues EXCEPT ![children[p].queue] = Append(@, results)]
    /\ children' = [children EXCEPT ![p].state = "ended"]
    /\ UNCHANGED <<main_pc, exit_code, exit_by, enable, bots, i, key, processes_logs,
                   summary>>
    /\ UNCHANGED <<worker, pair, pipeline, lazy, scan>>

\* A Worker ends on an exception nothing catches: nothing is put
worker_dies(p) ==
    /\ children[p].state = "alive"
    /\ children' = [children EXCEPT ![p].state = "ended"]
    /\ UNCHANGED <<main_pc, exit_code, exit_by, enable, bots, i, key, processes_logs,
                   queues, summary>>
    /\ UNCHANGED <<worker, pair, pipeline, lazy, scan>>

\* the steps of main
MainStep ==
    \/ load_config
    \/ new_bot
    \/ bot_start
    \/ poll_queue
    \/ sleep

MainNext ==
    \/ MainStep
    \/ KeyboardInterrupt
    \/ KeyboardInterrupt_uncaught
    \/ \E p \in DOMAIN children : worker_reports(p)
    \/ \E p \in DOMAIN children : worker_dies(p)

MainSpec == MainInit /\ [][MainNext]_vars

----------------------------------------------------------------------------
\* Two harvesters side by side (PairSpec): GiveawayBot.start has started one
\* process per site and each runs its own _sow.  A step of _sow is taken here
\* from the for loop on: fetching and filtering are folded into the giveaway
\* the loop reaches next, or into the empty page that ends the loop.

\* giveaways one _sow is served before the model stops it
MaxServed == 2

\* the giveaways that can reach the for loop: 'entered' is a required filter
Reached == { g \in Giveaways : ~g.entered }

PairInit ==
    /\ harvester = [s \in Sites |->
                      [pc |-> "start", cached_points |-> None, points |-> 0,
                       giveaways_enter |-> <<>>, served |-> <<>>]]
    /\ WorkerIdle
    /\ MainIdle
    /\ PipelineIdle
    /\ LazyIdle
    /\ ScanIdle

\* mutant: the points are one cell that every harvester draws on
SpendShared(h, s, g) ==
    [t \in DOMAIN h |-> [h[t] EXCEPT !.points = Deduct(@, g)]]

\* points -= giveaway.points, on the local of the _sow of site s
Spend(h, s, g) == [h EXCEPT ![s].points = Deduct(@, g)]

\* points = self.points in the process of site s
pair_points(s) ==
    /\ harvester[s].pc = "start"
    /\ \/ \E b \in Balances :
             harvester' = [harvester EXCEPT ![s].cached_points = Some(b),
                                            ![s].points = b,
                                            ![s].pc = "sow"]
       \/ harvester' = [harvester EXCEPT ![s].pc = "exited"]
       \/ harvester' = [harvester EXCEPT ![s].pc = "died"]
    /\ UNCHANGED <<worker, orchestrator, pipeline, lazy, scan>>

\* one pass of "for giveaway in giveaways" in the process of site s
pair_enter(s) ==
    /\ harvester[s].pc = "sow"
    /\ Len(harvester[s].served) < MaxServed
    /\ \E giveaway \in Reached :
          IF Affordable(harvester[s].points, giveaway)
          THEN \E status \in {"ok", "error"} :
                  LET seen == [harvester EXCEPT
                                 ![s].served = Append(@, [title |-> giveaway.title,
                                                          status |-> status])]
                  IN IF Entered(status)
                     THEN harvester' =
                            [Spend(seen, s, giveaway) EXCEPT
                               ![s].giveaways_enter = Append(@, Entry(giveaway))]
                     ELSE harvester' = seen
          ELSE harvester' =
                 [harvester EXCEPT
                    ![s].served = Append(@, [title |-> giveaway.title,
                                             status |-> "Not Enough Points."]),
                    ![s].pc = "halted"]
    /\ UNCHANGED <<worker, orchestrator, pipeline, lazy, scan>>

\* _get_giveaways in the process of site s returns an empty page (break),
\* fails its login check (_crash) or raises
pair_fetch_ends(s) ==
    /\ harvester[s].pc = "sow"
    /\ \E end \in {"halted", "exited", "died"} :
          harvester' = [harvester EXCEPT ![s].pc = end]
    /\ UNCHANGED <<worker, orchestrator, pipeline, lazy, scan>>

PairNext ==
    \/ \E s \in Sites : pair_points(s)
    \/ \E s \in Sites : pair_enter(s)
    \/ \E s \in Sites : pair_fetch_ends(s)

PairSpec == PairInit /\ [][PairNext]_vars

----------------------------------------------------------------------------
\* The filter chain as a function (PipeSpec): Harvester.__init__ builds
\* self.filters from the configured tokens, and the filter loop of _sow runs
\* that chain over one page.

\* tokens in config['filters']
MaxTokens == 2
\* giveaways on the page the chain is run over
MaxListLen == 2

\* The tokens a configuration may hold, as the split on ',' and '=' leaves
\* them: known and unknown names, with and without an argument
Tokens ==
    { Bare("library"), Bare("wishlist"), Bare("dlc"), Bare("cards"), Bare("trust"),
      Bare("max_points"),
      Arged("trust", "0"), Arged("max_points", "10"), Arged("min_points", "10"),
      Arged("min_level", "1"), Arged("os", "lin"), Arged("dlc", "1") }

TokenLists == UNION { [1..n -> Tokens] : n \in 0..MaxTokens }

\* The giveaways of the page: the default one and variations of it, after
\* the fixture of tests.py
Candidates ==
    { Giveaway("Default", 11, FALSE, 1),
      [Giveaway("Game In Library", 11, FALSE, 1) EXCEPT
          !.in_library = TRUE, !.dlc = TRUE],
      [Giveaway("Game Not In Wishlist", 11, FALSE, 1) EXCEPT
          !.in_wishlist = FALSE, !.os_list = {"win", "mac"}],
      [Giveaway("To chip", 5, FALSE, 0) EXCEPT !.trust_points = 0],
      [Giveaway("No cards", 11, TRUE, 1) EXCEPT !.cards = FALSE, !.trust_points = -1] }

CandidateLists ==
    UNION { { l \in [1..n -> Candidates] : \A a, b \in 1..n : a # b => l[a] # l[b] } :
            n \in 0..MaxListLen }

\* the filters that read a fact resolved on first read
LazyFilters == {"level", "trust", "os", "library", "wishlist", "dlc", "cards"}

PipeInit ==
    /\ p_pc = "config"
    /\ p_site \in Sites
    /\ p_tokens \in TokenLists
    /\ p_filters = <<>>
    /\ p_giveaways \in CandidateLists
    /\ p_level \in Levels
    /\ p_raising = {}
    /\ p_out = None
    /\ WorkerIdle
    /\ MainIdle
    /\ PairIdle
    /\ LazyIdle
    /\ ScanIdle

\* Harvester.__init__
harvester_init ==
    /\ p_pc = "config"
    /\ p_filters' = HarvesterInit(p_site, p_tokens)
    /\ p_pc' = "filters"
    /\ UNCHANGED <<p_site, p_tokens, p_giveaways, p_level, p_raising, p_out>>
    /\ UNCHANGED <<worker, orchestrator, pair, lazy, scan>>

\* the filters of the chain that are applied locally and read a fact
Resolving(s, chain) ==
    { chain[k].name : k \in { j \in 1..Len(chain) :
                                /\ ~IsInternal(s, chain[j])
                                /\ chain[j].name \in LazyFilters } }

\* The facts whose resolution can raise AttributeError: get_cards calls
\* find_all on the category block find() may not have found, the wishlist
\* and SteamGiftsGiveaway.trust_points read .text of a tag that may be
\* missing; IndieGalaGiveaway.trust_points catches it itself
AttributeErrors(s) ==
    IF s = "SteamGifts" THEN {"cards", "trust", "wishlist"} ELSE {"cards", "wishlist"}

\* The filter loop of _sow over one page.  A filter whose fact resolution
\* raises AttributeError is left out by "except AttributeError: continue";
\* any other exception, or a _crash inside the resolution, ends the process
filter_loop ==
    /\ p_pc = "filters"
    /\ \/ \E raising \in {{}} \cup { {n} : n \in Resolving(p_site, p_filters)
                                                   \cap AttributeErrors(p_site) } :
             /\ p_raising' = raising
             /\ p_out' = Some(RunFilters(p_site,
                                         SelectSeq(p_filters, LAMBDA f : f.name \notin raising),
                                         p_giveaways, p_level))
             /\ p_pc' = "done"
       \/ /\ Resolving(p_site, p_filters) # {}
          /\ p_giveaways # <<>>
          /\ p_pc' = "died"
          /\ UNCHANGED <<p_raising, p_out>>
    /\ UNCHANGED <<p_site, p_tokens, p_filters, p_giveaways, p_level>>
    /\ UNCHANGED <<worker, orchestrator, pair, lazy, scan>>

PipeNext ==
    \/ harvester_init
    \/ filter_loop

PipeSpec == PipeInit /\ [][PipeNext]_vars

----------------------------------------------------------------------------
\* The facts resolved on first read, in one Worker process: the giveaways'
\* trust_points (SteamGiftsGiveaway), in_wishlist and in_library (Giveaway),
\* and the wishlist and library of the SteamParser singleton they read

\* giveaway instances the process builds
MaxGiveaways == 2
\* calls of wrapped functions in one behaviour
MaxCalls == 4

Gws == 1..MaxGiveaways
\* the SteamParser instance
Steam == 0
\* self.game_id of the giveaways
game_id(g) == g

Cells == (Gws \X {"trust_points", "in_wishlist", "in_library"})
             \cup ({Steam} \X {"wishlist", "library"})

RECURSIVE SumOver(_, _)
SumOver(f, S) ==
    IF S = {} THEN 0
    ELSE LET c == CHOOSE x \in S : TRUE IN f[c] + SumOver(f, S \ {c})

\* the calls of wrapped functions made so far
Calls == SumOver(z_calls, Cells)

\* the property of SteamParser that a membership fact reads
ListOf(fact) == IF fact = "in_wishlist" THEN "wishlist" ELSE "library"

\* what a wrapped function does when called: it returns a value, or raises
Returned(v) == [kind |-> "value", value |-> v]
Raised(k) == [kind |-> k]

\* The outcomes of the functions that fetch and parse a page.  "fatal" is
\* SystemExit from _login_check/_crash and every exception other than
\* AttributeError; AttributeError comes from ".text" on a tag that find()
\* did not find (gift_sent_row.a.text, item.find('h4', ...).text and
\* get_title for the configured wishlist); the library is parsed with
\* json.loads, which raises ValueError
Outcomes(fact) ==
    CASE fact = "trust_points" ->
             { Returned(v) : v \in {0, 1} } \cup { Raised("AttributeError"), Raised("fatal") }
      [] fact = "wishlist" ->
             { Returned(v) : v \in {{}, {1}} } \cup { Raised("AttributeError"), Raised("fatal") }
      [] fact = "library" ->
             { Returned(v) : v \in {{}, {1}} } \cup { Raised("fatal") }

\* caching_property.wrapped, on the cached_<name> attribute of the object and
\* the outcome res of prop(self) if it is called: the attribute after the
\* read, the number of calls of prop, the value returned (None when prop
\* raised) and the exception that leaves the wrapper
caching_property(cached, res) ==
    IF cached # None
    THEN [cached |-> cached, called |-> 0, ret |-> cached, raised |-> "no"]
    ELSE IF res.kind = "value"
    THEN [cached |-> Some(res.value), called |-> 1, ret |-> Some(res.value), raised |-> "no"]
    ELSE [cached |-> None, called |-> 1, ret |-> None, raised |-> res.kind]

\* singleton.getinstance: the dict after the call and the constructions made
getinstance(inst, class_) ==
    [instances |-> inst \cup {class_},
     built |-> IF class_ \in inst THEN 0 ELSE 1]

\* The facts of a giveaway are read by the filters, inside the try of _sow's
\* filter loop: AttributeError is caught there and the loop continues,
\* anything else ends the process
AfterFilter(raised) == IF raised \in {"no", "AttributeError"} THEN "run" ELSE "died"

LazyInit ==
    /\ z_pc = "run"
    /\ instances = {}
    /\ z_built = 0
    /\ z_cached = [c \in Cells |-> None]
    /\ z_calls = [c \in Cells |-> 0]
    /\ z_steam = [g \in Gws |-> FALSE]
    /\ z_list = [g \in Gws |-> [f \in {"in_wishlist", "in_library"} |-> None]]
    /\ z_ret = None
    /\ WorkerIdle
    /\ MainIdle
    /\ PairIdle
    /\ PipelineIdle
    /\ ScanIdle

\* g.trust_points, read by _filter_trust and _arged_filter_trust
read_trust_points(g) ==
    /\ z_pc = "run"
    /\ \E res \in Outcomes("trust_points") :
         LET c == <<g, "trust_points">>
             r == caching_property(z_cached[c], res)
         IN /\ Calls + r.called <= MaxCalls
            /\ z_cached' = [z_cached EXCEPT ![c] = r.cached]
            /\ z_calls' = [z_calls EXCEPT ![c] = @ + r.called]
            /\ z_ret' = IF r.raised = "no" THEN Some(<<c, Val(r.ret)>>) ELSE z_ret
            /\ z_pc' = AfterFilter(r.raised)
    /\ UNCHANGED <<instances, z_built, z_steam, z_list>>
    /\ UNCHANGED <<worker, orchestrator, pair, pipeline, scan>>

\* g.in_wishlist / g.in_library (Giveaway): on a miss the giveaway takes the
\* SteamParser instance if self.steam is None, reads steam.wishlist /
\* steam.library (itself cached on the instance) if its own copy is None,
\* and looks its game_id up in the list
read_membership(g, fact) ==
    /\ z_pc = "run"
    /\ \E res \in Outcomes(ListOf(fact)) :
         LET c == <<g, fact>>
             sc == <<Steam, ListOf(fact)>>
             miss == z_cached[c] = None
             make == miss /\ ~z_steam[g]
             got == getinstance(instances, "SteamParser")
             fill == miss /\ z_list[g][fact] = None
             inner == caching_property(z_cached[sc], res)
             lst == IF fill THEN inner.ret ELSE z_list[g][fact]
             raised == IF fill THEN inner.raised ELSE "no"
             r == caching_property(z_cached[c],
                                   IF lst # None THEN Returned(game_id(g) \in Val(lst))
                                   ELSE Raised(raised))
         IN /\ Calls + r.called + (IF fill THEN inner.called ELSE 0) <= MaxCalls
            /\ instances' = IF make THEN got.instances ELSE instances
            /\ z_built' = IF make THEN z_built + got.built ELSE z_built
            /\ z_steam' = [z_steam EXCEPT ![g] = @ \/ miss]
            /\ z_list' = [z_list EXCEPT ![g][fact] = lst]
            /\ z_cached' = [z_cached EXCEPT ![sc] = IF fill THEN inner.cached ELSE @,
                                            ![c] = r.cached]
            /\ z_calls' = [z_calls EXCEPT ![sc] = IF fill THEN @ + inner.called ELSE @,
                                          ![c] = @ + r.called]
            /\ z_ret' = IF r.raised = "no" THEN Some(<<c, Val(r.ret)>>) ELSE z_ret
            /\ z_pc' = AfterFilter(r.raised)
    /\ UNCHANGED <<worker, orchestrator, pair, pipeline, scan>>

\* read by _filter_wishlist
read_in_wishlist(g) == read_membership(g, "in_wishlist")

\* read by _filter_library
read_in_library(g) == read_membership(g, "in_library")

LazyNext ==
    \/ \E g \in Gws : read_trust_points(g)
    \/ \E g \in Gws : read_in_wishlist(g)
    \/ \E g \in Gws : read_in_library(g)

LazySpec == LazyInit /\ [][LazyNext]_vars

----------------------------------------------------------------------------
\* One filter method called on a list of giveaways, as tests.py calls them

\* the names for which a _filter_<name> method exists (lines 418-509)
BareNames == {"entered", "level", "trust", "library", "wishlist", "dlc", "cards"}
\* the names for which an _arged_filter_<name> method exists
ArgedNames == {"trust", "os", "max_points", "min_points", "min_level"}

\* the platforms a store page can show
Platforms == {"win", "lin", "mac"}

\* thresholds below, at and above the costs and levels of the giveaways
Thresholds == {"0", "1", "5", "10", "11", "50"}

\* the calls made: every bare filter, the numeric filters at every threshold,
\* trust also at -1, and the platform filter with a platform, 'all' and 'any'
FilterCalls ==
    { Bare(n) : n \in BareNames }
        \cup { Arged(n, t) : n \in {"max_points", "min_points", "min_level", "trust"},
                             t \in Thresholds }
        \cup { Arged("trust", "-1") }
        \cup { Arged("os", a) : a \in Platforms \cup {"all", "any"} }

CallInit ==
    /\ p_pc = "call"
    /\ p_site \in Sites
    /\ p_tokens = <<>>
    /\ \E flt \in FilterCalls : p_filters = <<flt>>
    /\ p_giveaways \in CandidateLists
    /\ p_level \in Levels
    /\ p_raising = {}
    /\ p_out = None
    /\ WorkerIdle
    /\ MainIdle
    /\ PairIdle
    /\ LazyIdle
    /\ ScanIdle

\* self.hw._filter_<name>(gw_list) / self.hw._arged_filter_<name>(gw_list, arg)
call_filter ==
    /\ p_pc = "call"
    /\ p_out' = Some(CallFilter(p_filters[1], p_giveaways, p_level))
    /\ p_pc' = "called"
    /\ UNCHANGED <<p_site, p_tokens, p_filters, p_giveaways, p_level, p_raising>>
    /\ UNCHANGED <<worker, orchestrator, pair, lazy, scan>>

CallNext == call_filter

CallSpec == CallInit /\ [][CallNext]_vars

----------------------------------------------------------------------------
\* The filter loop of _sow run over one page with a chain of any order

\* the filters a chain may hold: the configurable tokens and the two
\* required filters
ChainFilters == Tokens \cup { Bare("entered"), Bare("level") }

Chains == UNION { [1..n -> ChainFilters] : n \in 0..MaxTokens }

ChainInit ==
    /\ p_pc = "chain"
    /\ p_site \in Sites
    /\ p_tokens = <<>>
    /\ p_filters \in Chains
    /\ p_giveaways \in CandidateLists
    /\ p_level \in Levels
    /\ p_raising = {}
    /\ p_out = None
    /\ WorkerIdle
    /\ MainIdle
    /\ PairIdle
    /\ LazyIdle
    /\ ScanIdle

\* for flt in self.filters: if flt not in self.internal_filters: ...
run_chain ==
    /\ p_pc = "chain"
    /\ p_out' = Some(RunFilters(p_site, p_filters, p_giveaways, p_level))
    /\ p_pc' = "ran"
    /\ UNCHANGED <<p_site, p_tokens, p_filters, p_giveaways, p_level, p_raising>>
    /\ UNCHANGED <<worker, orchestrator, pair, lazy, scan>>

ChainNext == run_chain

ChainSpec == ChainInit /\ [][ChainNext]_vars

----------------------------------------------------------------------------
\* IndieGalaHarvester._reap (ScanSpec): the check loop over the listing of
\* completed giveaways, then the read of the won giveaways

\* GETs of the check loop before the listing has to end it
MaxScanFetches == 2
\* <li> items in one listing
MaxItems == 2

\* An <li> of the listing: an entry with its entry_id input, an <li> without
\* that input (item.find gives None, None['value'] raises TypeError), or the
\* 'No results.' item
Items == {"entry", "plain", "No results."}

Listings == UNION { [1..n -> Items] : n \in 0..MaxItems }

\* the for loop reaches a 'No results.' item of the listing
EndsLoop(l) ==
    \E k \in 1..Len(l) : l[k] = "No results." /\ \A j \in 1..(k - 1) : l[j] = "entry"

ScanInit ==
    /\ s_pc = "get"
    /\ s_items = <<>>
    /\ s_pos = 1
    /\ s_reap = TRUE
    /\ s_fetches = 0
    /\ s_seen = <<>>
    /\ s_posts = <<>>
    /\ s_left = ""
    /\ s_err = ""
    /\ s_ret = None
    /\ WorkerIdle
    /\ MainIdle
    /\ PairIdle
    /\ PipelineIdle
    /\ LazyIdle

\* an exception nothing in _reap catches
ScanDies(err) ==
    /\ s_pc' = "died"
    /\ s_err' = err

\* while reap: data = GET library_completed; html = json.loads(data)['html']
\* under "except: break"; items = find_all('ul', ...)[0].find_all('li')
scan_get ==
    /\ s_pc = "get"
    /\ s_reap
    /\ \/ /\ s_fetches' = s_fetches + 1
          /\ s_left' = "not json"
          /\ s_pc' = "won"
          /\ UNCHANGED <<s_items, s_pos, s_err>>
       \/ /\ \E l \in Listings :
                /\ s_fetches + 1 < MaxScanFetches \/ EndsLoop(l)
                /\ s_items' = l
                /\ s_pc' = IF l = <<>> THEN "get" ELSE "items"
          /\ s_fetches' = s_fetches + 1
          /\ s_pos' = 1
          /\ UNCHANGED <<s_left, s_err>>
       \/ /\ \E err \in {"request", "IndexError"} : ScanDies(err)
          /\ UNCHANGED <<s_items, s_pos, s_fetches, s_left>>
    /\ UNCHANGED <<s_reap, s_seen, s_posts, s_ret>>
    /\ UNCHANGED <<worker, orchestrator, pair, pipeline, lazy>>

\* where "for item in items" goes after item: break on 'No results.', the
\* "except TypeError: pass" around the loop on an item without the input,
\* the next item or the next pass of "while reap" otherwise
NextItem(item) ==
    CASE item = "No results." -> s_pos' = s_pos /\ s_pc' = "won" /\ s_left' = "No results."
      [] item = "plain" -> s_pos' = s_pos /\ s_pc' = "get" /\ s_left' = s_left
      [] OTHER -> IF s_pos < Len(s_items)
                  THEN s_pos' = s_pos + 1 /\ s_pc' = "items" /\ s_left' = s_left
                  ELSE s_pos' = s_pos /\ s_pc' = "get" /\ s_left' = s_left

\* one pass of "for item in items"
scan_item ==
    /\ s_pc = "items"
    /\ LET item == s_items[s_pos]
           here == <<s_fetches, s_pos>>
       IN \/ /\ item = "No results."
             /\ s_reap' = FALSE
             /\ NextItem(item)
             /\ UNCHANGED <<s_seen, s_posts, s_err>>
          \/ /\ item = "plain"
             /\ s_seen' = Append(s_seen, here)
             /\ NextItem(item)
             /\ UNCHANGED <<s_reap, s_posts, s_err>>
          \/ /\ item = "entry"
             /\ s_seen' = Append(s_seen, here)
             /\ s_posts' = Append(s_posts, here)
             /\ \/ NextItem(item) /\ UNCHANGED s_err
                \/ ScanDies("request") /\ UNCHANGED <<s_pos, s_left>>
             /\ UNCHANGED s_reap
    /\ UNCHANGED <<s_items, s_fetches, s_ret>>
    /\ UNCHANGED <<worker, orchestrator, pair, pipeline, lazy>>

\* after the loop: data = GET library_completed; html = json.loads(data)['html']
\* outside any try; the <li> with a feedback button are the wins returned
scan_won ==
    /\ s_pc = "won"
    /\ \/ /\ \E wins \in WinLists : s_ret' = Some(wins)
          /\ s_pc' = "returned"
          /\ UNCHANGED s_err
       \/ /\ \E err \in {"ValueError", "request", "IndexError"} : ScanDies(err)
          /\ UNCHANGED s_ret
    /\ UNCHANGED <<s_items, s_pos, s_reap, s_fetches, s_seen, s_posts, s_left>>
    /\ UNCHANGED <<worker, orchestrator, pair, pipeline, lazy>>

ScanNext ==
    \/ scan_get
    \/ scan_item
    \/ scan_won

ScanSpec == ScanInit /\ [][ScanNext]_vars

----------------------------------------------------------------------------
\* Properties of _sow

GA == Giveaway("A", 11, FALSE, 1)
GB == Giveaway("B", 5, FALSE, 0)

\* the cost of the giveaway an entry of giveaways_enter names
PointsOf(title) == (CHOOSE g \in Giveaways : g.title = title).points

RECURSIVE SumPoints(_)
SumPoints(entries) ==
    IF entries = <<>> THEN 0
    ELSE PointsOf(Head(entries)) + SumPoints(Tail(entries))

\* C1: the giveaway the for loop has reached is attempted if and only if its
\* cost is at most the remaining points (equal included); one that costs more
\* ends _sow at once, and after _sow has returned no giveaway is attempted and
\* no page is fetched any more.
C1_AttemptedIffAffordable ==
    /\ [][pc = "enter" =>
            /\ giveaways[idx].points <= points =>
                 /\ Len(attempts') = Len(attempts) + 1
                 /\ SubSeq(attempts', 1, Len(attempts)) = attempts
                 /\ attempts'[Len(attempts')].title = giveaways[idx].title
                 /\ log' = ""
                 /\ sow' = None
            /\ giveaways[idx].points > points =>
                 /\ attempts' = attempts
                 /\ fetched' = fetched
                 /\ log' = "Not Enough Points."
                 /\ sow' = Some(giveaways_enter)
                 /\ pc' = "reap"]_vars
    /\ [][sow # None => attempts' = attempts /\ fetched' = fetched]_vars

\* C1 witness: _sow has halted on a giveaway it could not afford, after an
\* earlier attempt, while the next giveaway of the page was affordable
C1_Witness ==
    /\ log = "Not Enough Points."
    /\ attempts # <<>>
    /\ idx < Len(giveaways)
    /\ giveaways[idx].points > points
    /\ giveaways[idx + 1].points <= points

\* C2: in every state of a cycle the remaining points are the balance read at
\* the start minus the costs of the entries made, they are never negative, the
\* costs of the entries never exceed the balance, and the remaining points
\* never increase.
C2_BudgetInvariant ==
    /\ [](cached_points # None =>
            /\ points = Val(cached_points) - SumPoints(giveaways_enter)
            /\ points >= 0
            /\ SumPoints(giveaways_enter) <= Val(cached_points))
    /\ [][cached_points # None => points' <= points]_vars

\* C2 witness: a finished cycle that made two entries
C2_Witness ==
    /\ pc = "done"
    /\ Len(giveaways_enter) >= 2
    /\ points < Val(cached_points)

\* C3: an attempt on an affordable giveaway that returns a status other than
\* 'ok' changes neither the remaining points nor the list of entries, does not
\* end _sow, and the loop moves on to the next giveaway of the page (to the
\* next fetch after the last one) without attempting the same one again.
C3_FailedEntryContinues ==
    [][(pc = "enter" /\ attempts' # attempts /\ attempts'[Len(attempts')].status = "error") =>
         /\ points' = points
         /\ giveaways_enter' = giveaways_enter
         /\ sow' = None
         /\ log' = ""
         /\ fatal' = NoFatal
         /\ queue' = queue
         /\ giveaways' = giveaways
         /\ Len(attempts') = Len(attempts) + 1
         /\ IF idx < Len(giveaways)
            THEN pc' = "enter" /\ idx' = idx + 1
            ELSE pc' = "get_giveaways"]_vars

\* C3 witness: on one page, a failed attempt was followed by a successful
\* attempt on the next giveaway
C3_Witness ==
    /\ Len(fetched) = 1
    /\ Len(attempts) = 2
    /\ attempts[1].status = "error"
    /\ attempts[2].status = "ok"
    /\ attempts[2].title # attempts[1].title
    /\ giveaways_enter = <<attempts[2].title>>

\* the local filters let A and B through
PassAB ==
    RunFilters(site, filters, <<GA, GB>>,
               IF cached_level = None THEN 0 ELSE Val(cached_level)) = <<GA, GB>>

\* C4: an empty page ends _sow without an error: it returns the entries made so
\* far and afterwards fetches and attempts nothing; with a balance of 30,
\* page 1 = [A (11), B (5)] passing the filters, both entries made and page 2
\* empty, it returns [A, B] with 14 points left after exactly two fetches.
C4_EmptyPageHalts ==
    /\ [][(pc = "get_giveaways" /\ fetched' # fetched /\ fetched'[Len(fetched')] = <<>>) =>
            /\ sow' = Some(giveaways_enter)
            /\ giveaways_enter' = giveaways_enter
            /\ points' = points
            /\ attempts' = attempts
            /\ log' = "No more giveaways."
            /\ fatal' = NoFatal
            /\ queue' = queue
            /\ pc' = "reap"]_vars
    /\ [][log = "No more giveaways." =>
            fetched' = fetched /\ attempts' = attempts /\ sow' = sow]_vars
    /\ []((/\ sow # None
           /\ cached_points = Some(30)
           /\ Len(fetched) >= 2
           /\ fetched[1] = <<GA, GB>>
           /\ fetched[2] = <<>>
           /\ PassAB
           /\ \A k \in 1..Len(attempts) : attempts[k].status = "ok")
          => /\ Val(sow) = <<"A", "B">>
             /\ points = 14
             /\ Len(fetched) = 2
             /\ log = "No more giveaways.")

\* C4 witness: the end-to-end scenario has run
C4_Witness ==
    /\ sow = Some(<<"A", "B">>)
    /\ cached_points = Some(30)
    /\ fetched = << <<GA, GB>>, <<>> >>
    /\ points = 14
    /\ log = "No more giveaways."
    /\ fatal = NoFatal

----------------------------------------------------------------------------
\* Properties of the Worker (Harvester.start, Parser._crash)

\* the process has ended: start returned, sys.exit() or an uncaught exception
Ended == pc \in {"done", "exited", "died"}

HasSow(r) == "sow" \in DOMAIN r

\* C5: a Worker that has ended has put exactly one result on its queue, and
\* when a fatal condition ended it (a failed login check, a read that raises,
\* a level query whose status is not ok) that result is an error result.
C5_FatalAlwaysReported ==
    Ended => /\ Len(queue) = 1
             /\ fatal # NoFatal => queue[1].status = "error"

\* C6: once a login check has failed, the queue holds exactly one result, an
\* error result, and the process has exited: no ok result is put in that cycle.
C6_LoginFailureOneError ==
    fatal.kind = "login" =>
        /\ Len(queue) = 1
        /\ queue[1].status = "error"
        /\ pc = "exited"

\* C6 witness: the login check of _reap failed after _sow had made an entry
C6_Witness ==
    /\ fatal = [kind |-> "login", at |-> "reap"]
    /\ giveaways_enter # <<>>
    /\ sow = Some(giveaways_enter)

\* C7: a Worker's queue never holds more than one result, so never an ok and
\* an error result together.
C7_AtMostOneResult ==
    /\ Len(queue) <= 1
    /\ ~(\E j, k \in 1..Len(queue) : queue[j].status = "ok" /\ queue[k].status = "error")

\* C7 witness: the process exited on an error after _sow had returned entries,
\* with its single result on the queue
C7_Witness ==
    /\ pc = "exited"
    /\ sow # None
    /\ Val(sow) # <<>>
    /\ Len(queue) = 1

\* C8: when a fatal condition has ended the cycle, whatever is on the queue is
\* an error result made of a status and a message only: the entries _sow made
\* are in no result.
C8_NoPartialResult ==
    /\ \A k \in 1..Len(queue) :
          queue[k].status = "error" => DOMAIN queue[k] = {"status", "msg"}
    /\ fatal # NoFatal =>
          \A k \in 1..Len(queue) : queue[k].status = "error" /\ ~HasSow(queue[k])

\* C8 witness: the cycle was aborted after an entry, and an error result is out
C8_Witness ==
    /\ fatal # NoFatal
    /\ giveaways_enter # <<>>
    /\ Len(queue) = 1

\* C9: _reap runs only after _sow has returned, the step in which _sow returns
\* hands over to _reap whatever ended _sow and whatever it entered, nothing
\* blocks _reap there, and the ok result is put only after both have returned
\* and carries both lists.
C9_ReapAfterSow ==
    /\ [](pc \in {"reap", "reap_won"} => sow # None /\ reap = None)
    /\ [](pc = "put" => sow # None /\ reap # None)
    /\ [][(sow = None /\ sow' # None) =>
            /\ pc = "get_giveaways" \/ pc = "enter"
            /\ sow' = Some(giveaways_enter)
            /\ log' \in {"No more giveaways.", "Not Enough Points."}
            /\ pc' = "reap"]_vars
    /\ [](pc = "reap" => ENABLED (reap_SteamGifts \/ reap_IndieGala_check))
    /\ [](\A k \in 1..Len(queue) : queue[k].status = "ok" =>
            /\ sow # None
            /\ reap # None
            /\ queue[k] = [status |-> "ok", sow |-> giveaways_enter, reap |-> Val(reap)])

\* C9 witness: _sow ended on a giveaway it could not afford and entered
\* nothing; _reap ran and the ok result is on the queue
C9_Witness ==
    /\ pc = "done"
    /\ log = "Not Enough Points."
    /\ sow = Some(<<>>)
    /\ reap # None
    /\ queue = <<[status |-> "ok", sow |-> <<>>, reap |-> Val(reap)]>>

\* _reap failed: it was ended by a fatal condition, or IndieGala's check loop
\* was left on a listing that could not be parsed
ReapAborted == fatal.at = "reap"
ReapAbsorbed == site = "IndieGala" /\ reap_flag /\ pc \in {"reap_won", "put", "done"}

\* C10 as claimed: after a failure of _reap, the result of the cycle reports
\* the entries _sow made.
C10_ReapFailureKeepsSow ==
    (Ended /\ giveaways_enter # <<>> /\ (ReapAborted \/ ReapAbsorbed)) =>
        \E k \in 1..Len(queue) : HasSow(queue[k]) /\ queue[k].sow = giveaways_enter

\* C10 amended: a failure _reap absorbs (IndieGala's check loop left on an
\* unparsable listing) leaves the entries of _sow in the ok result of the
\* cycle; a failure that ends _reap (failed login check, exception) leaves the
\* entries made and their points spent, but no result on the queue reports them.
C10_OnlyAbsorbedReapFailureKeepsSow ==
    /\ (pc = "done" /\ ReapAbsorbed) =>
          queue = <<[status |-> "ok", sow |-> giveaways_enter, reap |-> Val(reap)]>>
    /\ ReapAborted =>
          /\ sow = Some(giveaways_enter)
          /\ points = Val(cached_points) - SumPoints(giveaways_enter)
          /\ \A k \in 1..Len(queue) : queue[k].status = "error" /\ ~HasSow(queue[k])

\* C10 witness: both cases after an entry was made
C10_Witness ==
    /\ giveaways_enter # <<>>
    /\ \/ pc = "done" /\ ReapAbsorbed
       \/ ReapAborted /\ queue # <<>>

----------------------------------------------------------------------------
\* Properties of the session check (Parser._login_check)

\* the login checks that found the marker: a check that does not ends the
\* process through _crash
SuccessfulChecks == login_checks - (IF fatal.kind = "login" THEN 1 ELSE 0)

\* C11 as claimed: a Worker checks its session exactly once in a cycle, at
\* startup: never more than once, and exactly once by the time a page has been
\* fetched or an entry attempted.
C11_LoginCheckedOnce ==
    /\ login_checks <= 1
    /\ (fetched # <<>> \/ attempts # <<>>) => login_checks = 1

\* C11 amended: the first session check is made at startup, in the read of the
\* balance, before any page is fetched or entry attempted; every page fetch
\* makes a check of its own (and SteamGifts' _reap one more), so a cycle makes
\* at least one check more than it fetched pages; no entry is attempted before
\* two checks have succeeded.
C11_LoginCheckedAtEveryRead ==
    /\ [](login_checks = 0 =>
            /\ fetched = <<>>
            /\ attempts = <<>>
            /\ pc \in {"start", "died"})
    /\ [][(login_checks = 0 /\ login_checks' > 0) => pc = "start"]_vars
    /\ []((fetched # <<>> \/ attempts # <<>>) =>
            /\ cached_points # None
            /\ SuccessfulChecks >= 1 + Len(fetched))
    /\ [][fetched' # fetched => login_checks' > login_checks]_vars
    /\ [][(pc = "reap" /\ site = "SteamGifts" /\ reap' # reap) =>
            login_checks' = login_checks + 1]_vars
    /\ [](attempts # <<>> => SuccessfulChecks >= 2)

\* C11 witness: a finished SteamGifts cycle that fetched two pages and made an
\* entry checked its session five times (balance, token, two pages, _reap)
C11_Witness ==
    /\ pc = "done"
    /\ site = "SteamGifts"
    /\ Len(fetched) = 2
    /\ giveaways_enter # <<>>
    /\ login_checks = 5

----------------------------------------------------------------------------
\* Properties of main and GiveawayBot (MainSpec)

\* the queues main can still read: those of the bot it holds
Polled == { processes_logs[s] : s \in DOMAIN processes_logs }

\* C12: every result a Worker has put is dequeued by main exactly once and
\* gives one summary line, whenever the Worker finishes: so while main runs, a
\* result that has not been dequeued yet lies in a queue main still polls, and
\* no queue has given more than one line.
C12_EveryResultDequeued ==
    /\ main_pc # "stopped" =>
          \A q \in DOMAIN queues : queues[q] # <<>> => q \in Polled
    /\ \A q \in DOMAIN summary : Len(summary[q]) <= 1

\* the model stops main at the last cycle it is allowed to build
AtLastCycle == main_pc = "new_bot" /\ bots = MaxCycles

\* C13: main never waits for a Worker and is never stopped by one: while it
\* has not exited it always has a next step of its own, whatever the Workers
\* do; it takes a result only from a queue that holds one; a step of a Worker
\* moves nothing of main; and main ends only on an interrupt or on the
\* configuration file.
C13_MainNeverWaitsForWorker ==
    /\ []((main_pc # "stopped" /\ ~AtLastCycle) => ENABLED MainStep)
    /\ [][(\E q \in DOMAIN queues : Len(queues'[q]) < Len(queues[q])) =>
            /\ main_pc = "poll"
            /\ key <= Len(Keys)
            /\ queues[processes_logs[Keys[key]]] # <<>>
            /\ \A q \in DOMAIN queues :
                  queues'[q] # queues[q] => q = processes_logs[Keys[key]]]_vars
    /\ [][(\E p \in DOMAIN children :
               children[p].state = "alive" /\ children'[p].state = "ended") =>
            UNCHANGED <<main_pc, exit_code, exit_by, bots, i, key, processes_logs>>]_vars
    /\ [](main_pc = "stopped" =>
            exit_by \in {"Interrupted by user.", "No config file.", "config error",
                         "KeyboardInterrupt"})

\* C13 witness: the second cycle is being polled while, of the first cycle,
\* one Worker is still alive and the other ended without a result, and a
\* Worker of the second cycle has reported an error
C13_Witness ==
    /\ bots = 2
    /\ main_pc = "poll"
    /\ DOMAIN children = {1, 2} \X Sites
    /\ children[<<1, "SteamGifts">>].state = "alive"
    /\ children[<<1, "IndieGala">>].state = "ended"
    /\ queues[<<1, "IndieGala">>] = <<>>
    /\ summary[<<1, "IndieGala">>] = <<>>
    /\ \E q \in Polled :
          /\ summary[q] # <<>>
          /\ summary[q][1].line = "end work with error"

\* C14: the step that starts a cycle makes, for every site whose enable flag
\* is not zero, exactly one process and one queue that did not exist before,
\* the process alive, the queue empty and the one main polls for that site;
\* for a disabled site it makes nothing; it leaves the earlier processes and
\* queues as they were, and no other step makes a process or a queue.
C14_OneNewWorkerPerEnabledSite ==
    /\ [][(main_pc = "start" /\ main_pc' # "start" /\ main_pc' # "stopped") =>
            /\ \A s \in Sites :
                  LET made == { p \in DOMAIN children' \ DOMAIN children :
                                  children'[p].name = s }
                  IN IF int(enable[s]) # 0
                     THEN /\ Cardinality(made) = 1
                          /\ \A p \in made :
                                /\ children'[p].state = "alive"
                                /\ children'[p].queue \notin DOMAIN queues
                                /\ children'[p].queue \in DOMAIN queues'
                                /\ queues'[children'[p].queue] = <<>>
                                /\ s \in DOMAIN processes_logs'
                                /\ processes_logs'[s] = children'[p].queue
                                /\ \A o \in DOMAIN children :
                                      children[o].queue # children'[p].queue
                     ELSE /\ made = {}
                          /\ s \notin DOMAIN processes_logs'
            /\ \A p \in DOMAIN children : children'[p] = children[p]
            /\ \A q \in DOMAIN queues : queues'[q] = queues[q]
            /\ Cardinality(DOMAIN queues') =
                  Cardinality(DOMAIN queues) + Cardinality(DOMAIN processes_logs')]_vars
    /\ [][(DOMAIN children' # DOMAIN children \/ DOMAIN queues' # DOMAIN queues) =>
            main_pc = "start"]_vars
    /\ [](\A o, p \in DOMAIN children : o # p => children[o].queue # children[p].queue)

\* C14 witness: the second cycle has started with SteamGifts enabled and
\* IndieGala disabled: two processes and two queues, all of SteamGifts
C14_Witness ==
    /\ bots = 2
    /\ main_pc = "poll"
    /\ int(enable["SteamGifts"]) # 0
    /\ int(enable["IndieGala"]) = 0
    /\ DOMAIN children = {<<1, "SteamGifts">>, <<2, "SteamGifts">>}
    /\ DOMAIN queues = {<<1, "SteamGifts">>, <<2, "SteamGifts">>}
    /\ processes_logs = [s \in {"SteamGifts"} |-> <<2, "SteamGifts">>]

C16_ConfigFailureExitsNonZero ==
    exit_by \in {"No config file.", "config error"} =>
        /\ exit_code # None
        /\ Val(exit_code) # 0
        /\ bots = 0 => DOMAIN children = {}

----------------------------------------------------------------------------
\* Properties of two concurrent harvesters (PairSpec)

RECURSIVE SowAlone(_, _, _)
\* _sow run by itself on what it was served: the points left and the entries
SowAlone(pts, entered, served) ==
    IF served = <<>> THEN [points |-> pts, giveaways_enter |-> entered]
    ELSE IF Head(served).status = "ok"
         THEN SowAlone(pts - PointsOf(Head(served).title),
                       Append(entered, Head(served).title), Tail(served))
         ELSE SowAlone(pts, entered, Tail(served))

\* C17: the harvesters of different sites share nothing: a step changes the
\* state of one harvester only, so an entry or a halt of one leaves the points
\* of the other as they were; and in every interleaving the entries and the
\* points a harvester has are those _sow gives when it runs alone on the
\* balance and the giveaways that harvester was served.
C17_HarvestersIndependent ==
    /\ [][\A s, t \in Sites :
            (s # t /\ harvester'[s] # harvester[s]) => harvester'[t] = harvester[t]]_vars
    /\ [](\A s \in Sites :
            harvester[s].cached_points # None =>
               [points |-> harvester[s].points,
                giveaways_enter |-> harvester[s].giveaways_enter]
                  = SowAlone(Val(harvester[s].cached_points), <<>>, harvester[s].served))

\* C17 witness: both harvesters have made an entry, SteamGifts has halted for
\* want of points while IndieGala goes on with a different budget
C17_Witness ==
    /\ harvester["SteamGifts"].pc = "halted"
    /\ harvester["SteamGifts"].giveaways_enter # <<>>
    /\ harvester["SteamGifts"].served[Len(harvester["SteamGifts"].served)].status
          = "Not Enough Points."
    /\ harvester["IndieGala"].pc = "sow"
    /\ harvester["IndieGala"].giveaways_enter # <<>>
    /\ harvester["IndieGala"].points # harvester["SteamGifts"].points

----------------------------------------------------------------------------
\* Properties of the filter chain (PipeSpec)

\* out is in taken at increasing positions
SubList(out, in) ==
    \E f \in [1..Len(out) -> 1..Len(in)] :
        /\ \A k \in 1..Len(out) : in[f[k]] = out[k]
        /\ \A j, k \in 1..Len(out) : j < k => f[j] < f[k]

NoDuplicates(l) == \A j, k \in 1..Len(l) : j # k => l[j] # l[k]

\* C18: whatever the chain and the page, the list the filter loop leaves is a
\* sub-list of the page: every giveaway of it is on the page, none twice, it is
\* not longer than the page, and its giveaways are in the order of the page.
\* The same holds when the configured tokens are run as a chain by themselves.
C18_OutputIsSubList ==
    /\ p_out # None =>
          /\ SubList(Val(p_out), p_giveaways)
          /\ Len(Val(p_out)) <= Len(p_giveaways)
          /\ NoDuplicates(Val(p_out))
          /\ \A k \in 1..Len(Val(p_out)) : InSeq(Val(p_out)[k], p_giveaways)
    /\ SubList(RunFilters(p_site, p_tokens, p_giveaways, p_level), p_giveaways)

\* C18 witness: a chain with two configured filters that are applied locally
\* ('cards' among them) has run over a page of two giveaways; either both are
\* left, in the order of the page, or the second one is taken out
C18_Witness ==
    /\ p_out # None
    /\ p_raising = {}
    /\ Len(p_tokens) = 2
    /\ InSeq(Bare("cards"), p_filters)
    /\ Len(p_giveaways) = 2
    /\ Val(p_out) \in {p_giveaways, <<p_giveaways[1]>>}

\* C19: when the configuration asks for 'wishlist' and 'library' is in the
\* chain only as a default of the site, the chain __init__ leaves has no
\* 'library', and still has 'wishlist' and the other defaults.
C19_WishlistDropsDefaultLibrary ==
    (/\ p_pc # "config"
     /\ InSeq(Bare("wishlist"), p_tokens)
     /\ InSeq(Bare("library"), required_filters(p_site))
     /\ ~InSeq(Bare("library"), p_tokens)) =>
        /\ ~InSeq(Bare("library"), p_filters)
        /\ InSeq(Bare("wishlist"), p_filters)
        /\ \A k \in 1..Len(required_filters(p_site)) :
              required_filters(p_site)[k] # Bare("library") =>
                 InSeq(required_filters(p_site)[k], p_filters)

\* C19 witness: SteamGifts configured with 'wishlist' alone
C19_Witness ==
    /\ p_pc = "done"
    /\ p_site = "SteamGifts"
    /\ p_tokens = <<Bare("wishlist")>>
    /\ p_filters = <<Bare("entered"), Bare("level"), Bare("wishlist")>>

\* C20: when the configuration itself asks for 'library' together with
\* 'wishlist', 'library' is in the chain __init__ leaves.
C20_ExplicitLibraryStays ==
    (/\ p_pc # "config"
     /\ InSeq(Bare("wishlist"), p_tokens)
     /\ InSeq(Bare("library"), p_tokens)) =>
        InSeq(Bare("library"), p_filters)

\* ---------------------------------------------------------------------
\* C21

Recognised(flt) ==
    IF flt.arg = NoArg THEN flt.name \in BareNames ELSE flt.name \in ArgedNames

\* C21: a filter of the chain whose name has no method of its kind (an
\* unknown name, a parameter-only name without argument, a boolean-only name
\* with one) changes nothing: alone it gives back the list it was given, the
\* loop's output is the output of the chain with those filters taken out (so
\* every other filter is still applied), and a chain none of whose local
\* filters resolves a fact never ends the process.
C21_UnknownFilterIsNoOp ==
    /\ \A k \in 1..Len(p_filters) :
          ~Recognised(p_filters[k]) =>
              ApplyFilter(p_site, p_filters[k], p_giveaways, p_level) = p_giveaways
    /\ p_out # None =>
          Val(p_out) = RunFilters(p_site,
                                  SelectSeq(p_filters,
                                            LAMBDA f : Recognised(f) /\ f.name \notin p_raising),
                                  p_giveaways, p_level)
    /\ (p_pc = "died") => Resolving(p_site, p_filters) # {}

\* C21 witness: a parameter-only filter configured bare, followed by 'dlc';
\* the DLC of the page is removed, the other giveaway is kept
C21_Witness ==
    /\ p_pc = "done"
    /\ p_raising = {}
    /\ p_tokens = <<Bare("max_points"), Bare("dlc")>>
    /\ Len(p_giveaways) = 2
    /\ p_giveaways[1].title = "Default"
    /\ p_giveaways[2].title = "Game In Library"
    /\ Val(p_out) = <<p_giveaways[1]>>

\* ---------------------------------------------------------------------
\* C22

\* C22: whatever reads have been made, the wrapped function of a fact has
\* been called at most once on each object, and the value a read returns is
\* the value in the object's cached_<name> attribute.
C22_ResolvedOnce ==
    /\ \A c \in Cells : z_calls[c] <= 1
    /\ z_ret # None => z_cached[Val(z_ret)[1]] = Some(Val(z_ret)[2])

\* C22, the part that holds: a call is made only while nothing is cached,
\* and a cached value is never replaced
C22_CachedValueIsFinal ==
    [][\A c \in Cells :
          z_cached[c] # None => /\ z_cached'[c] = z_cached[c]
                                /\ z_calls'[c] = z_calls[c]]_vars

\* ---------------------------------------------------------------------
\* C23

\* C23: the filter loop never hands a list on when the resolution of a fact
\* failed inside one of its filters: a failure ends the process, so a list
\* leaves the loop only if every local filter of the chain was applied.
C23_ResolutionFailureIsFatal ==
    p_pc = "done" =>
        /\ p_raising = {}
        /\ Val(p_out) = RunFilters(p_site, p_filters, p_giveaways, p_level)

\* ---------------------------------------------------------------------
\* C24

\* the giveaways of a list
Range(l) == { l[k] : k \in 1..Len(l) }

\* the elements of s at the positions S, in the order of s
At(s, S) ==
    [k \in 1..Cardinality(S) |->
        s[CHOOSE a \in S : Cardinality({ b \in S : b < a }) = k - 1]]

\* out is the list gs with exactly the giveaways of S left in it, in order
Keeps(out, gs, S) == out = At(gs, { k \in 1..Len(gs) : gs[k] \in S })

\* the filter method that was called, and whether it was called with arg
Called(name, witharg) ==
    /\ p_pc = "called"
    /\ p_filters[1].name = name
    /\ (p_filters[1].arg # NoArg) = witharg

\* C24: for every page and every threshold t, max_points leaves exactly the
\* giveaways that cost t or less, min_points those that cost t or more,
\* min_level those that require level t or more, and the bare level filter
\* those that require the user's level or less; a giveaway exactly at the
\* threshold is kept by each of them.
C24_NumericFiltersInclusive ==
    LET gs == p_giveaways
        out == Val(p_out)
        t == int(p_filters[1].arg)
    IN /\ Called("max_points", TRUE) =>
             Keeps(out, gs, { g \in Range(gs) : g.points <= t })
       /\ Called("min_points", TRUE) =>
             Keeps(out, gs, { g \in Range(gs) : g.points >= t })
       /\ Called("min_level", TRUE) =>
             Keeps(out, gs, { g \in Range(gs) : g.level >= t })
       /\ Called("level", FALSE) =>
             Keeps(out, gs, { g \in Range(gs) : g.level <= p_level })

\* C24 witness: max_points=5 called on a page with a giveaway that costs 5
\* and one that costs 11: the one at the threshold is left
C24_Witness ==
    /\ Called("max_points", TRUE)
    /\ p_filters[1].arg = "5"
    /\ Len(p_giveaways) = 2
    /\ p_giveaways[1].points = 5
    /\ p_giveaways[2].points = 11
    /\ Val(p_out) = <<p_giveaways[1]>>

\* ---------------------------------------------------------------------
\* C25

\* C25: for every page, the trust filter with an argument t >= 0 leaves
\* exactly the giveaways whose author's trust score is t or more, with an
\* argument of -1 or less it gives the page back as it is, and the bare
\* trust filter gives what the filter with argument 1 gives.
C25_TrustFilter ==
    LET gs == p_giveaways
        out == Val(p_out)
        t == int(p_filters[1].arg)
    IN /\ Called("trust", TRUE) =>
             IF t >= 0
             THEN Keeps(out, gs, { g \in Range(gs) : g.trust_points >= t })
             ELSE out = gs
       /\ Called("trust", FALSE) => out = _arged_filter_trust(gs, "1")

\* C25 witness: the bare trust filter called on a page with an author at
\* score 0 and one at score 1: the second is left, as trust=1 leaves it,
\* while trust=0 leaves both
C25_Witness ==
    /\ Called("trust", FALSE)
    /\ Len(p_giveaways) = 2
    /\ p_giveaways[1].trust_points = 0
    /\ p_giveaways[2].trust_points = 1
    /\ Val(p_out) = <<p_giveaways[2]>>
    /\ _arged_filter_trust(p_giveaways, "0") = p_giveaways

\* ---------------------------------------------------------------------
\* C26

\* C26 as stated: for every page, the platform filter given a platform
\* leaves exactly the giveaways that support it, and given the token 'any'
\* it gives the page back as it is.
C26_PlatformFilterAny ==
    LET gs == p_giveaways
        out == Val(p_out)
        a == p_filters[1].arg
    IN Called("os", TRUE) =>
          /\ a \in Platforms => Keeps(out, gs, { g \in Range(gs) : a \in g.os_list })
          /\ a = "any" => out = gs

\* C26 amended: the token that disables the platform filter is 'all'; any
\* other argument is looked up in the supported platforms, so 'any' is a
\* platform no giveaway supports and leaves nothing.
C26_PlatformFilterAll ==
    LET gs == p_giveaways
        out == Val(p_out)
        a == p_filters[1].arg
    IN Called("os", TRUE) =>
          /\ a \in Platforms => Keeps(out, gs, { g \in Range(gs) : a \in g.os_list })
          /\ a = "all" => out = gs
          /\ a = "any" => out = <<>>

\* C26 witness: os=lin called on a page with a giveaway for Windows and Mac
\* only and one for all three platforms: the second is left
C26_Witness ==
    /\ Called("os", TRUE)
    /\ p_filters[1].arg = "lin"
    /\ Len(p_giveaways) = 2
    /\ p_giveaways[1].os_list = {"win", "mac"}
    /\ p_giveaways[2].os_list = {"win", "lin", "mac"}
    /\ Val(p_out) = <<p_giveaways[2]>>

\* ---------------------------------------------------------------------
\* C27

\* C27: for every page, 'entered' leaves exactly the giveaways not yet
\* entered, 'library' exactly those not owned, 'wishlist' exactly those on
\* the wishlist, 'dlc' exactly those that are not DLC and 'cards' exactly
\* those with trading cards.
C27_BooleanFilters ==
    LET gs == p_giveaways
        out == Val(p_out)
    IN /\ Called("entered", FALSE) => Keeps(out, gs, { g \in Range(gs) : ~g.entered })
       /\ Called("library", FALSE) => Keeps(out, gs, { g \in Range(gs) : ~g.in_library })
       /\ Called("wishlist", FALSE) => Keeps(out, gs, { g \in Range(gs) : g.in_wishlist })
       /\ Called("dlc", FALSE) => Keeps(out, gs, { g \in Range(gs) : ~g.dlc })
       /\ Called("cards", FALSE) => Keeps(out, gs, { g \in Range(gs) : g.cards })

\* C27 witness: 'wishlist' called on a page with a giveaway that is not on
\* the wishlist and one that is: the second is left
C27_Witness ==
    /\ Called("wishlist", FALSE)
    /\ Len(p_giveaways) = 2
    /\ ~p_giveaways[1].in_wishlist
    /\ p_giveaways[2].in_wishlist
    /\ Val(p_out) = <<p_giveaways[2]>>

\* ---------------------------------------------------------------------
\* C28

\* C28: in a Worker process, which is built anew for every cycle with no
\* balance cached, the balance is read from the site once: the read happens
\* at the start of _sow, before any page has been fetched, the budget of
\* the cycle starts as the value read, no page is fetched before it, it is
\* never read again, and the budget only ever holds what is left of it.
C28_BalanceQueriedOnce ==
    [][/\ cached_points' # cached_points =>
              /\ pc = "start"
              /\ cached_points = None
              /\ fetched = <<>>
              /\ points' = Val(cached_points')
       /\ pc' = "start" => pc = "start"
       /\ fetched' # fetched => cached_points # None
       /\ points' # points =>
              /\ cached_points' # None
              /\ points' <= Val(cached_points')]_vars

\* C28 witness: a cycle that read a balance of 30, fetched two pages and
\* spent part of the balance
C28_Witness ==
    /\ cached_points = Some(30)
    /\ Len(fetched) >= 2
    /\ points < 30
    /\ sow # None

\* ---------------------------------------------------------------------
\* C29

\* C29: however many giveaways read their wishlist or library fact in a
\* Worker process, SteamParser is constructed at most once and the wishlist
\* and the library are each fetched at most once.
C29_SteamListsFetchedOnce ==
    /\ z_built <= 1
    /\ z_calls[<<Steam, "wishlist">>] <= 1
    /\ z_calls[<<Steam, "library">>] <= 1

\* C29, the part that holds: one SteamParser instance serves every
\* giveaway, the library is fetched at most once, and once the wishlist has
\* been fetched successfully it is not fetched again
C29_OneSteamParser ==
    /\ z_built <= 1
    /\ z_calls[<<Steam, "library">>] <= 1
    /\ z_cached[<<Steam, "wishlist">>] # None =>
           \A g \in Gws : z_list[g]["in_wishlist"] \in {None, z_cached[<<Steam, "wishlist">>]}

\* ---------------------------------------------------------------------
\* C30

\* the position at which x first occurs in s
FirstIndex(x, s) == CHOOSE k \in 1..Len(s) : s[k] = x /\ \A j \in 1..(k - 1) : s[j] # x

\* new holds the tokens that are not among the defaults d, each once, in
\* the order in which the configuration first names them
NewTokens(new, d, tokens) ==
    /\ NoDuplicates(new)
    /\ Range(new) = Range(tokens) \ Range(d)
    /\ \A a, b \in 1..Len(new) :
           a < b => FirstIndex(new[a], tokens) < FirstIndex(new[b], tokens)

\* the lists made of some of the configured tokens, in configured order
Picked(tokens) == { At(tokens, S) : S \in SUBSET (1..Len(tokens)) }

\* the list left after the filters of chain have been applied one after the
\* other, the k-th to what the (k-1)-th left
Staged(s, chain, gs, lvl) ==
    LET L[k \in 0..Len(chain)] ==
            IF k = 0 THEN gs ELSE ApplyFilter(s, chain[k], L[k - 1], lvl)
    IN L[Len(chain)]

\* C30 as stated: the chain is the defaults of the site followed by the
\* configured tokens that are not in it yet, in configured order, and the
\* list the loop leaves is the page put through all filters of the chain in
\* that order, each taking what the previous one left.
C30_ChainIsDefaultsThenTokens ==
    /\ p_pc \in {"filters", "done", "died"} =>
          \E new \in Picked(p_tokens) :
              /\ NewTokens(new, required_filters(p_site), p_tokens)
              /\ p_filters = required_filters(p_site) \o new
    /\ p_out # None => Val(p_out) = Staged(p_site, p_filters, p_giveaways, p_level)

\* C30 amended: the chain is the defaults followed by the new tokens in
\* configured order, without 'library' when bare 'wishlist' is in it; no
\* filter is in it twice; and the list the loop leaves is the page put
\* through the filters of the chain in that order, each taking what the
\* previous one left, where a filter whose fact resolution raised
\* AttributeError is passed over.
C30_ChainOrder ==
    /\ p_pc \in {"filters", "done", "died"} =>
          /\ \E new \in Picked(p_tokens) :
                /\ NewTokens(new, required_filters(p_site), p_tokens)
                /\ LET all == required_filters(p_site) \o new
                   IN p_filters = IF Bare("wishlist") \in Range(all)
                                  THEN SelectSeq(all, LAMBDA f : f # Bare("library"))
                                  ELSE all
          /\ NoDuplicates(p_filters)
    /\ p_out # None =>
          Val(p_out) = Staged(p_site,
                              SelectSeq(p_filters, LAMBDA f : f.name \notin p_raising),
                              p_giveaways, p_level)

\* C30 witness: IndieGala with cards, dlc configured: the chain is entered,
\* level, cards, dlc, and of a page with a DLC and a plain game the game is
\* left
C30_Witness ==
    /\ p_pc = "done"
    /\ p_raising = {}
    /\ p_site = "IndieGala"
    /\ p_level = 1
    /\ p_tokens = <<Bare("cards"), Bare("dlc")>>
    /\ p_filters = <<Bare("entered"), Bare("level"), Bare("cards"), Bare("dlc")>>
    /\ Len(p_giveaways) = 2
    /\ p_giveaways[1].dlc
    /\ p_giveaways[2].title = "Default"
    /\ Val(p_out) = <<p_giveaways[2]>>

\* ---------------------------------------------------------------------
\* C31

\* C31: the k-th fetch of _sow asks for page k, so the pages are fetched in
\* the order 1, 2, 3, ... and none twice; and when the filters leave nothing
\* of a page, _sow has not returned and is about to fetch the next page.
C31_PagesConsecutive ==
    [][/\ fetched' # fetched =>
              /\ Len(fetched') = Len(fetched) + 1
              /\ page = Len(fetched')
       /\ (pc = "filter" /\ pc' # "died" /\ giveaways' = <<>>) =>
              /\ pc' = "get_giveaways"
              /\ page' = page + 1
              /\ page' = Len(fetched) + 1
              /\ sow' = None]_vars

\* C31 witness: page 1 held one giveaway, already entered, which the
\* 'entered' filter removed; nothing was attempted and page 2 was fetched
C31_Witness ==
    /\ Len(fetched) = 2
    /\ Len(fetched[1]) = 1
    /\ fetched[1][1].entered
    /\ fetched[2] # <<>>
    /\ attempts = <<>>
    /\ page = 2

\* ---------------------------------------------------------------------
\* C32

RECURSIVE Flatten(_)
\* the lists of a list of lists, one after the other
Flatten(ls) == IF ls = <<>> THEN <<>> ELSE Head(ls) \o Flatten(Tail(ls))

\* the candidates of the pages fetched so far that pass the filters of the
\* chain, in page order and in list order within a page
Passed ==
    LET lvl == IF cached_level = None THEN 0 ELSE Val(cached_level)
    IN Flatten([k \in 1..Len(fetched) |-> RunFilters(site, filters, fetched[k], lvl)])

\* the titles of the attempts that returned 'ok', in the order made
Succeeded ==
    LET ok == SelectSeq(attempts, LAMBDA a : a.status = "ok")
    IN [k \in 1..Len(ok) |-> ok[k].title]

\* C32: the attempts made are, one for one and in order, the first
\* candidates of the filtered pages (so every candidate reached is
\* attempted at most once, in page order and list order), the entered list
\* holds exactly those whose attempt returned 'ok', in that order, and this
\* list is what _sow returns.
C32_EnteredListExact ==
    /\ Len(attempts) <= Len(Passed)
    /\ \A k \in 1..Len(attempts) : attempts[k].title = Passed[k].title
    /\ giveaways_enter = Succeeded
    /\ sow # None => Val(sow) = Succeeded

\* C32 witness: three attempts over two pages, one of them failed, and
\* _sow returned the two entries made, the first from page 1 and the
\* second from page 2
C32_Witness ==
    /\ sow = Some(<<"A", "B">>)
    /\ Len(fetched) = 3
    /\ Len(attempts) = 3
    /\ attempts[1].status = "ok"
    /\ attempts[2].status = "error"
    /\ attempts[3].status = "ok"
    /\ Len(fetched[1]) = 2

\* ---------------------------------------------------------------------
\* C33

\* the Worker processes of site s that are alive
LiveWorkers(s) == { p \in DOMAIN children : p[2] = s /\ children[p].state = "alive" }

\* C33: at every moment at most one Worker process of a site is alive: the
\* Worker a cycle started for the site has ended or been terminated when the
\* next cycle starts its Worker for the same site.
C33_OneLiveWorkerPerSite ==
    \A s \in Sites : Cardinality(LiveWorkers(s)) <= 1

\* ---------------------------------------------------------------------
\* C34

\* no call of the adapter has raised or left the process
EveryCallReturns == pc \notin {"died", "exited"}

\* C34: _sow terminates.  The source has an empty page at page MaxPages + 1
\* at the latest; if every call of the adapter returns, _sow eventually
\* returns, and before that it has fetched at most MaxPages + 1 pages and
\* attempted at most one entry for each giveaway of a fetched page.
C34_SowTerminates ==
    /\ [](/\ Len(fetched) <= MaxPages + 1
          /\ Len(attempts) <= MaxPages * MaxPageLen
          /\ Len(attempts) <= Len(Flatten(fetched)))
    /\ ([]EveryCallReturns => <>(sow # None))

\* _sow has returned on the empty page after every page before it was full
\* and every giveaway on them was attempted
C34_Witness ==
    /\ sow # None
    /\ log = "No more giveaways."
    /\ Len(fetched) = MaxPages + 1
    /\ fetched[Len(fetched)] = <<>>
    /\ Len(attempts) = MaxPages * MaxPageLen

\* ---------------------------------------------------------------------
\* C35

\* the chain in the order perm gives
Permuted(chain, perm) == [k \in 1..Len(chain) |-> chain[perm[k]]]

\* C35: with no failing resolution the output of the filter loop does not
\* depend on the order of the chain: every permutation of the chain gives the
\* list the chain gave, and a filter of the chain applied twice, in a row or
\* once more at the end of the chain, gives what it gives applied once.
C35_OrderIrrelevant ==
    p_pc = "ran" =>
        /\ \A perm \in Permutations(1..Len(p_filters)) :
              RunFilters(p_site, Permuted(p_filters, perm), p_giveaways, p_level)
                  = Val(p_out)
        /\ \A k \in 1..Len(p_filters) :
              LET once == ApplyFilter(p_site, p_filters[k], p_giveaways, p_level)
              IN /\ ApplyFilter(p_site, p_filters[k], once, p_level) = once
                 /\ RunFilters(p_site, Append(p_filters, p_filters[k]),
                               p_giveaways, p_level) = Val(p_out)

\* two different filters that each remove a different giveaway of the page
C35_Witness ==
    /\ p_pc = "ran"
    /\ Len(p_filters) = 2
    /\ Len(p_giveaways) = 2
    /\ LET one == ApplyFilter(p_site, p_filters[1], p_giveaways, p_level)
           two == ApplyFilter(p_site, p_filters[2], p_giveaways, p_level)
       IN /\ Len(one) = 1
          /\ Len(two) = 1
          /\ one # two
    /\ Val(p_out) = <<>>

\* ---------------------------------------------------------------------
\* C36

\* the filter, as the chain holds it, is an element of the site's
\* internal_filters (line 600)
WrittenInternal(s, flt) ==
    /\ s = "SteamGifts"
    /\ flt \in { Bare("library"), Bare("level"), Bare("os"), Bare("wishlist") }

\* the giveaway passes the filter's method
Passes(flt, g, lvl) == CallFilter(flt, <<g>>, lvl) = <<g>>

\* C36: the filter loop leaves out exactly the filters written in the chain
\* as an element of internal_filters.  A bare 'library', 'level' or
\* 'wishlist' removes nothing on SteamGifts, whatever the giveaway's facts;
\* every other filter of the chain, ('os', 'lin') included, removes the
\* giveaways that do not pass it.
C36_SkipsWrittenInternalOnly ==
    p_pc = "ran" =>
        Val(p_out) = SelectSeq(p_giveaways,
                               LAMBDA g : \A k \in 1..Len(p_filters) :
                                   \/ WrittenInternal(p_site, p_filters[k])
                                   \/ Passes(p_filters[k], g, p_level))

\* SteamGifts, chain library, os=lin: the game in the library stays, the
\* game without a Linux build goes
C36_Witness ==
    /\ p_pc = "ran"
    /\ p_site = "SteamGifts"
    /\ p_filters = <<Bare("library"), Arged("os", "lin")>>
    /\ Len(p_giveaways) = 2
    /\ p_giveaways[1].in_library
    /\ "lin" \notin p_giveaways[2].os_list
    /\ Val(p_out) = <<p_giveaways[1]>>

\* ---------------------------------------------------------------------
\* C37

\* the check loop has been left
LoopLeft == s_pc \in {"won", "returned"} \/ (s_pc = "died" /\ s_left # "")

\* C37: the check loop is left only on a 'No results.' item or on a response
\* that is not JSON; once it is left the scan returns the wins, it does not
\* end on the listing it reads next; and every item the for loop reached
\* before that has had one check posted.
C37_ScanChecksAndReturns ==
    /\ LoopLeft => s_left \in {"No results.", "not json"}
    /\ LoopLeft => s_err # "ValueError"
    /\ s_pc \in {"get", "won", "returned"} => s_posts = s_seen

\* what of C37 the code does: the loop is left on one of the two ends only,
\* and every entry with an entry_id the for loop reached has had exactly one
\* check posted, in the pass that reached it
C37_LoopAndChecks ==
    /\ LoopLeft => s_left \in {"No results.", "not json"}
    /\ s_left = "No results." <=> ~s_reap
    /\ s_pc = "returned" => s_ret # None /\ LoopLeft
    /\ \A k \in 1..Len(s_posts) : \A j \in 1..Len(s_posts) :
          s_posts[k] = s_posts[j] => k = j
    /\ \A k \in 1..Len(s_posts) : \E j \in 1..Len(s_seen) : s_seen[j] = s_posts[k]
    /\ s_fetches <= MaxScanFetches

====
